---------------------------- MODULE Spec2Model ----------------------------
(***************************************************************************)
(* Call-analytics query pipeline of helen-mark/phonecall: the planner      *)
(* (DeepSeekPlanner), the data loaders (JSONDataLoader, DriveDataLoader),  *)
(* the metric engine (JSONQueryExecutor), the analyzer (DeepSeekAnalyzer)  *)
(* and the interactive loop (enhanced_interactive_mode).                   *)
(*                                                                         *)
(* Three variants of the pipeline live in the repository:                  *)
(*   "main"   src/mcp_orchestrator.py, src/interactive.py                  *)
(*   "colab"  src/colab/mcp_orchestrator.py, src/colab/interactive.py      *)
(*   "legacy" src/llm_query_planner.py, src/analyzer.py                    *)
(*                                                                         *)
(* Text is a sequence of characters.  Cyrillic letters are written with a  *)
(* one-to-one Latin transliteration, one sequence element per letter       *)
(* ("ch" is the single letter che, "ss" the soft sign, "Ch" capital che).  *)
(* A Python exception is a value: every operation that can raise returns   *)
(* a record [exc |-> "none" or the exception's name, val |-> the result].  *)
(***************************************************************************)
EXTENDS Integers, Sequences, FiniteSets, TLC

(***************************************************************************)
(* Strings: str.lower() and the substring operator "a in b".               *)
(***************************************************************************)
LowerChar(c) ==
    CASE c = "A" -> "a"
      [] c = "B" -> "b"
      [] c = "V" -> "v"
      [] c = "G" -> "g"
      [] c = "D" -> "d"
      [] c = "E" -> "e"
      [] c = "Yo" -> "yo"
      [] c = "Zh" -> "zh"
      [] c = "Z" -> "z"
      [] c = "I" -> "i"
      [] c = "J" -> "j"
      [] c = "K" -> "k"
      [] c = "L" -> "l"
      [] c = "M" -> "m"
      [] c = "N" -> "n"
      [] c = "O" -> "o"
      [] c = "P" -> "p"
      [] c = "R" -> "r"
      [] c = "S" -> "s"
      [] c = "T" -> "t"
      [] c = "U" -> "u"
      [] c = "F" -> "f"
      [] c = "H" -> "h"
      [] c = "C" -> "c"
      [] c = "Ch" -> "ch"
      [] c = "Sh" -> "sh"
      [] c = "Sch" -> "sch"
      [] c = "Hs" -> "hs"
      [] c = "Y" -> "y"
      [] c = "Ss" -> "ss"
      [] c = "Eh" -> "eh"
      [] c = "Yu" -> "yu"
      [] c = "Ya" -> "ya"
      [] OTHER -> c

Lower(s) == [i \in 1..Len(s) |-> LowerChar(s[i])]

\* Python "sub in s" for strings
Contains(sub, s) ==
    \E i \in 0..(Len(s) - Len(sub)) : SubSeq(s, i + 1, i + Len(sub)) = sub

\* the bidirectional case-insensitive test used by the planner and the engine
FuzzyMatch(a, b) == Contains(Lower(a), Lower(b)) \/ Contains(Lower(b), Lower(a))

(***************************************************************************)
(* Tag vocabularies and the literal tags the planners substitute.          *)
(***************************************************************************)
available_tags ==
    << <<"n","i","z","k","o","e","_","k","a","ch","e","s","t","v","o","_","s","t","i","r","k","i","_","i","l","i","_","ch","i","s","t","k","i">>,
       <<"n","e","_","z","a","m","e","n","i","l","i","_","k","o","v","r","y","_","v","o","v","r","e","m","ya">>,
       <<"k","l","i","e","n","t","_","h","o","ch","e","t","_","d","o","b","a","v","i","t","ss","_","k","o","v","r","y">>,
       <<"k","l","i","e","n","t","_","h","o","ch","e","t","_","m","e","n","ss","sh","e","_","k","o","v","r","o","v">>,
       <<"p","o","g","a","sh","e","n","i","e","_","d","o","l","g","a">>,
       <<"r","a","s","t","o","r","zh","e","n","i","e","_","d","o","g","o","v","o","r","a">>,
       <<"v","o","z","o","b","n","o","v","l","e","n","i","e","_","u","s","l","u","g">>,
       <<"d","o","l","g","o","_","n","e","t","_","o","t","v","e","t","a","_","n","a","_","z","a","ya","v","k","u">>,
       <<"l","i","sh","n","ya","ya","_","d","o","s","t","a","v","k","a">>,
       <<"d","o","s","t","a","v","i","l","i","_","n","e","_","t","e","_","k","o","v","r","y">>,
       <<"n","e","_","v","y","s","t","a","v","l","e","n","_","v","o","v","r","e","m","ya","_","s","ch","e","t">>,
       <<"n","e","v","e","r","n","a","ya","_","s","u","m","m","a","_","v","_","s","ch","e","t","e">>,
       <<"k","o","v","e","r","_","z","a","b","r","a","l","i","_","b","e","z","_","p","r","i","ch","i","n","y">>,
       <<"z","a","b","r","a","l","i","_","n","e","_","t","o","t","_","k","o","v","e","r">>,
       <<"m","e","n","e","d","zh","e","r","_","n","a","g","r","u","b","i","l","_","k","l","i","e","n","t","u">>,
       <<"n","e","o","p","r","a","v","d","a","n","n","o","_","v","y","s","o","k","i","e","_","c","e","n","y">>,
       <<"n","e","o","p","r","a","v","d","a","n","n","y","j","_","r","o","s","t","_","c","e","n">>,
       <<"n","o","v","y","j","_","k","l","i","e","n","t","_","z","a","k","l","yu","ch","e","n","i","e","_","d","o","g","o","v","o","r","a">>,
       <<"k","o","n","s","u","l","ss","t","a","c","i","ya","_","i","l","i","_","u","t","o","ch","n","e","n","i","e","_","d","e","t","a","l","e","j">>,
       <<"p","o","m","e","n","ya","t","ss","_","s","p","e","c","i","f","i","k","a","c","i","i">>,
       <<"m","e","n","e","d","zh","e","r","_","o","b","e","sch","a","l","_","n","o","_","n","e","_","s","v","ya","z","a","l","s","ya","_","s","_","k","l","i","e","n","t","o","m">>,
       <<"k","l","i","e","n","t","_","u","h","o","d","i","t","_","k","_","k","o","n","k","u","r","e","n","t","a","m">>,
       <<"p","r","i","o","s","t","a","n","o","v","i","t","ss","_","u","s","l","u","g","i">>,
       <<"o","sh","i","b","k","a","_","v","_","d","o","k","u","m","e","n","t","a","h">> >>

legacy_available_tags ==
    << <<"zh","a","l","o","b","a","_","k","a","ch","e","s","t","v","o","_","s","t","i","r","k","i">>,
       <<"zh","a","l","o","b","a","_","d","o","l","g","a","ya","_","d","o","s","t","a","v","k","a">>,
       <<"zh","a","l","o","b","a","_","p","o","v","r","e","zh","d","e","n","i","e","_","i","z","d","e","l","i","ya">>,
       <<"b","l","a","g","o","d","a","r","n","o","s","t","ss">>,
       <<"v","o","p","r","o","s","_","o","p","l","a","t","a">>,
       <<"r","a","s","t","o","r","zh","e","n","i","e","_","d","o","g","o","v","o","r","a">>,
       <<"k","o","n","s","u","l","ss","t","a","c","i","ya">>,
       <<"zh","a","l","o","b","a","_","m","e","n","e","d","zh","e","r">>,
       <<"s","r","o","ch","n","y","j","_","v","o","p","r","o","s">>,
       <<"p","e","r","e","n","o","s","_","d","o","s","t","a","v","k","i">>,
       <<"o","t","m","e","n","a","_","z","a","k","a","z","a">> >>

\* 'жалоба_качество_стирки'
FallbackTagMain == <<"zh","a","l","o","b","a","_","k","a","ch","e","s","t","v","o","_","s","t","i","r","k","i">>

\* 'жалоба_долгая_доставка'
DeliveryTagMain == <<"zh","a","l","o","b","a","_","d","o","l","g","a","ya","_","d","o","s","t","a","v","k","a">>

\* 'низкое_качество_стирки_или_чистки'
FallbackTagColab == <<"n","i","z","k","o","e","_","k","a","ch","e","s","t","v","o","_","s","t","i","r","k","i","_","i","l","i","_","ch","i","s","t","k","i">>

\* 'неоправданно_высокие_цены'
PriceTagColab == <<"n","e","o","p","r","a","v","d","a","n","n","o","_","v","y","s","o","k","i","e","_","c","e","n","y">>

\* 'консультация_или_уточнение_деталей'
ConsultTagColab == <<"k","o","n","s","u","l","ss","t","a","c","i","ya","_","i","l","i","_","u","t","o","ch","n","e","n","i","e","_","d","e","t","a","l","e","j">>

\* 'качеств'
KwQuality == <<"k","a","ch","e","s","t","v">>

\* 'доставк'
KwDelivery == <<"d","o","s","t","a","v","k">>

\* 'стирк'
KwWash == <<"s","t","i","r","k">>

\* 'цен'
KwPrice == <<"c","e","n">>

\* 'дорог'
KwExpensive == <<"d","o","r","o","g">>

\* 'консульт'
KwConsult == <<"k","o","n","s","u","l","ss","t">>

\* 'уточн'
KwClarify == <<"u","t","o","ch","n">>

\* 'последние 6 месяцев'
DescLast6Months == <<"p","o","s","l","e","d","n","i","e"," ","6"," ","m","e","s","ya","c","e","v">>

\* 'этот месяц'
DescThisMonth == <<"eh","t","o","t"," ","m","e","s","ya","c">>

\* 'этот год'
DescThisYear == <<"eh","t","o","t"," ","g","o","d">>

\* 'первый квартал 2024'
DescQ1_2024 == <<"p","e","r","v","y","j"," ","k","v","a","r","t","a","l"," ","2","0","2","4">>

\* 'прошлый год'
DescLastYear == <<"p","r","o","sh","l","y","j"," ","g","o","d">>

\* 'жалоба'
KwComplaint == <<"zh","a","l","o","b","a">>

\* 'низкое'
KwLow == <<"n","i","z","k","o","e">>


(***************************************************************************)
(* datetime.  A datetime is the number of its day, day 1 being 2023-01-01  *)
(* (a Sunday); the time of day is not modelled.  The calendar is the       *)
(* proleptic Gregorian one from 2023 on.                                   *)
(***************************************************************************)
IsLeap(y) == (y % 4 = 0 /\ y % 100 # 0) \/ y % 400 = 0

DaysInYear(y) == IF IsLeap(y) THEN 366 ELSE 365

DaysInMonth(y, m) ==
    CASE m \in {1, 3, 5, 7, 8, 10, 12} -> 31
      [] m \in {4, 6, 9, 11} -> 30
      [] OTHER -> IF IsLeap(y) THEN 29 ELSE 28

RECURSIVE DaysBeforeYear(_)
DaysBeforeYear(y) ==
    IF y = 2023 THEN 0
    ELSE IF y > 2023 THEN DaysBeforeYear(y - 1) + DaysInYear(y - 1)
    ELSE DaysBeforeYear(y + 1) - DaysInYear(y)

RECURSIVE DaysBeforeMonth(_, _)
DaysBeforeMonth(y, m) ==
    IF m <= 1 THEN 0 ELSE DaysBeforeMonth(y, m - 1) + DaysInMonth(y, m - 1)

\* datetime(year, month, day)
MkDate(y, m, d) == DaysBeforeYear(y) + DaysBeforeMonth(y, m) + d

RECURSIVE YearFrom(_, _)
YearFrom(n, y) ==
    IF n <= DaysInYear(y) THEN y ELSE YearFrom(n - DaysInYear(y), y + 1)

\* .year, .month, .day and the day of the year
YearOf(n) == YearFrom(n, 2023)

DayOfYear(n) == n - DaysBeforeYear(YearOf(n))

RECURSIVE MonthFrom(_, _, _)
MonthFrom(doy, y, m) ==
    IF doy <= DaysInMonth(y, m) THEN m
    ELSE MonthFrom(doy - DaysInMonth(y, m), y, m + 1)

MonthOf(n) == MonthFrom(DayOfYear(n), YearOf(n), 1)

DayOf(n) == DayOfYear(n) - DaysBeforeMonth(YearOf(n), MonthOf(n))

\* isoweekday(): Monday = 1 .. Sunday = 7
IsoWeekday(n) == ((n - 2) % 7) + 1

\* the number of ISO weeks of year y: 53 when 1 January is a Thursday, or a
\* Wednesday in a leap year
IsoWeeksInYear(y) ==
    LET jan1 == IsoWeekday(MkDate(y, 1, 1))
    IN  IF jan1 = 4 \/ (jan1 = 3 /\ IsLeap(y)) THEN 53 ELSE 52

\* isocalendar()[:2] as <<year, week>>
IsoCalendar(n) ==
    LET y == YearOf(n)
        w == (DayOfYear(n) - IsoWeekday(n) + 10) \div 7
    IN  IF w < 1 THEN <<y - 1, IsoWeeksInYear(y - 1)>>
        ELSE IF w > IsoWeeksInYear(y) THEN <<y + 1, 1>>
        ELSE <<y, w>>

(***************************************************************************)
(* Text of numbers and dates: str -> int for ISO dates, strftime and the   *)
(* f-string formats, and the order of strings (by code point).             *)
(***************************************************************************)
Digits == <<"0", "1", "2", "3", "4", "5", "6", "7", "8", "9">>

IsDigit(c) == \E i \in 1..10 : Digits[i] = c

DigitVal(c) == (CHOOSE i \in 1..10 : Digits[i] = c) - 1

RECURSIVE ToInt(_)
ToInt(s) ==
    IF s = <<>> THEN 0
    ELSE 10 * ToInt(SubSeq(s, 1, Len(s) - 1)) + DigitVal(s[Len(s)])

AllDigits(s) == \A i \in 1..Len(s) : IsDigit(s[i])

Pad2(n) == <<Digits[((n \div 10) % 10) + 1], Digits[(n % 10) + 1]>>

Pad4(n) == Pad2(n \div 100) \o Pad2(n % 100)

\* datetime.fromisoformat(s) for the date-only form YYYY-MM-DD
FromIsoFormat(s) ==
    IF /\ Len(s) = 10
       /\ s[5] = "-" /\ s[8] = "-"
       /\ AllDigits(SubSeq(s, 1, 4)) /\ AllDigits(SubSeq(s, 6, 7))
       /\ AllDigits(SubSeq(s, 9, 10))
    THEN LET y == ToInt(SubSeq(s, 1, 4))
             m == ToInt(SubSeq(s, 6, 7))
             d == ToInt(SubSeq(s, 9, 10))
         IN  IF y >= 2023 /\ m \in 1..12 /\ d \in 1..DaysInMonth(y, m)
             THEN [exc |-> "none", val |-> MkDate(y, m, d)]
             ELSE [exc |-> "ValueError", val |-> 0]
    ELSE [exc |-> "ValueError", val |-> 0]

\* strftime('%Y-%m-%d'), strftime('%Y-%m'), f"{year}-W{week:02d}"
FormatDay(n) == Pad4(YearOf(n)) \o <<"-">> \o Pad2(MonthOf(n)) \o <<"-">> \o Pad2(DayOf(n))

FormatMonth(n) == Pad4(YearOf(n)) \o <<"-">> \o Pad2(MonthOf(n))

FormatWeek(n) ==
    Pad4(IsoCalendar(n)[1]) \o <<"-", "W">> \o Pad2(IsoCalendar(n)[2])

\* strftime('%d.%m.%Y')
FormatDotted(n) == Pad2(DayOf(n)) \o <<".">> \o Pad2(MonthOf(n)) \o <<".">> \o Pad4(YearOf(n))

\* code points of the characters period keys are made of
CharCode(c) ==
    CASE c = "-" -> 45
      [] c = "." -> 46
      [] c = "W" -> 87
      [] IsDigit(c) -> 48 + DigitVal(c)
      [] OTHER -> 1000

\* Python's a < b on strings
RECURSIVE StrLess(_, _)
StrLess(a, b) ==
    IF b = <<>> THEN FALSE
    ELSE IF a = <<>> THEN TRUE
    ELSE IF a[1] = b[1] THEN StrLess(Tail(a), Tail(b))
    ELSE CharCode(a[1]) < CharCode(b[1])

(***************************************************************************)
(* Python values that come out of json.loads: a key that is absent, null,  *)
(* a string, a number, a list, an object.                                  *)
(***************************************************************************)
JMissing == [t |-> "missing"]

JNull == [t |-> "null"]

JStr(s) == [t |-> "str", v |-> s]

JNum(n) == [t |-> "num", v |-> n]

JList(xs) == [t |-> "list", v |-> xs]

JObj(r) == [t |-> "obj", v |-> r]

\* dict.get(key): None when the key is absent
Get(j) == IF j.t = "missing" THEN JNull ELSE j

\* dict.get(key, default)
GetDefault(j, default) == IF j.t = "missing" THEN default ELSE j

\* bool(value)
Truthy(j) ==
    CASE j.t \in {"missing", "null"} -> FALSE
      [] j.t = "str" -> j.v # <<>>
      [] j.t = "num" -> j.v # 0
      [] j.t = "list" -> j.v # <<>>
      [] OTHER -> TRUE

Ok(v) == [exc |-> "none", val |-> v]

Raise(e) == [exc |-> e]

StrCountByTag == <<"c","o","u","n","t","_","b","y","_","t","a","g">>

StrTopNTags == <<"t","o","p","_","n","_","t","a","g","s">>

StrTagTrends == <<"t","a","g","_","t","r","e","n","d","s">>

StrComparison == <<"c","o","m","p","a","r","i","s","o","n">>

StrSentiment == <<"s","e","n","t","i","m","e","n","t">>

StrMonth == <<"m","o","n","t","h">>

StrWeek == <<"w","e","e","k">>

StrDay == <<"d","a","y">>

StrRelative == <<"r","e","l","a","t","i","v","e">>

\* "v = <expression>; <statements that use v>": the expression is evaluated
\* once and the statements see its value
Bind(v, F(_)) == CHOOSE y \in {F(x) : x \in {v}} : TRUE

(***************************************************************************)
(* DeepSeekPlanner: the validators.                                        *)
(***************************************************************************)
\* self.available_tags of the planner of a variant
AvailableTags(variant) ==
    IF variant = "legacy" THEN legacy_available_tags ELSE available_tags

\* "for x in value": the items, or TypeError when the value is not iterable
IterItems(j) ==
    CASE j.t = "list" -> Ok(j.v)
      [] j.t = "str" -> Ok([i \in 1..Len(j.v) |-> JStr(<<j.v[i]>>)])
      [] OTHER -> Raise("TypeError")

\* the inner loop of _validate_tags: the first vocabulary entry that matches
\* tag (then break), as a list of no or one element
RECURSIVE FirstAvailable(_, _, _)
FirstAvailable(tag, vocab, i) ==
    IF i > Len(vocab) THEN <<>>
    ELSE IF FuzzyMatch(tag, vocab[i]) THEN <<JStr(vocab[i])>>
    ELSE FirstAvailable(tag, vocab, i + 1)

\* the outer loop of _validate_tags; tag.lower() raises on a tag that is no string
RECURSIVE ValidateLoop(_, _, _, _)
ValidateLoop(items, vocab, i, valid_tags) ==
    IF i > Len(items) THEN Ok(valid_tags)
    ELSE IF items[i].t # "str" THEN Raise("AttributeError")
    ELSE ValidateLoop(items, vocab, i + 1,
                      valid_tags \o FirstAvailable(items[i].v, vocab, 1))

\* the list after "valid_tags or"
FallbackTags(variant) ==
    CASE variant = "main" -> <<JStr(FallbackTagMain)>>
      [] variant = "colab" -> <<JStr(FallbackTagColab)>>
      [] OTHER -> [i \in 1..1 |-> JStr(legacy_available_tags[i])]

\* _validate_tags with "return valid_tags" in place of "return valid_tags or [...]"
validate_tags_without_fallback(variant, tags) ==
    LET items == IterItems(tags)
    IN  IF items.exc # "none" THEN items
        ELSE ValidateLoop(items.val, AvailableTags(variant), 1, <<>>)

validate_tags(variant, tags) ==
    LET items == IterItems(tags)
    IN  IF items.exc # "none" THEN items
        ELSE LET r == ValidateLoop(items.val, AvailableTags(variant), 1, <<>>)
             IN  IF r.exc # "none" THEN r
                 ELSE Ok(IF r.val # <<>> THEN r.val ELSE FallbackTags(variant))

\* metric_map.get(literal) as a list of no or one MetricType
MetricOf(variant, s) ==
    CASE s = StrCountByTag -> <<"COUNT_BY_TAG">>
      [] s = StrTopNTags -> <<"TOP_N_TAGS">>
      [] s = StrTagTrends -> <<"TAG_TRENDS">>
      [] s = StrComparison -> <<"COMPARISON">>
      [] s = StrSentiment /\ variant = "legacy" -> <<"SENTIMENT_TREND">>
      [] OTHER -> <<>>

\* the loop of _parse_metrics; "metric in metric_map" hashes the metric, which
\* raises on a list or an object
RECURSIVE MetricsLoop(_, _, _, _)
MetricsLoop(variant, items, i, result) ==
    IF i > Len(items) THEN Ok(result)
    ELSE IF items[i].t \in {"list", "obj"} THEN Raise("TypeError")
    ELSE MetricsLoop(variant, items, i + 1,
                     result \o (IF items[i].t = "str"
                                THEN MetricOf(variant, items[i].v) ELSE <<>>))

parse_metrics(variant, metrics) ==
    LET items == IterItems(metrics)
    IN  IF items.exc # "none" THEN items
        ELSE LET r == MetricsLoop(variant, items.val, 1, <<>>)
             IN  IF r.exc # "none" THEN r
                 ELSE Ok(IF r.val # <<>> THEN r.val ELSE <<"COUNT_BY_TAG">>)

\* an object without keys, the default of plan_data.get('time_period', {})
EmptyPeriod ==
    JObj([description |-> JMissing, start |-> JMissing, end |-> JMissing,
          type |-> JMissing])

\* f"с {start.strftime('%d.%m.%Y')} по {end.strftime('%d.%m.%Y')}"
RangeText(start, end) ==
    <<"s", " ">> \o FormatDotted(start) \o <<" ", "p", "o", " ">> \o FormatDotted(end)

\* datetime.fromisoformat(value): TypeError when value is no string
IsoOf(j) == IF j.t = "str" THEN FromIsoFormat(j.v) ELSE Raise("TypeError")

\* the if/elif chain over the period's description: the number of the first
\* keyword it contains, 0 when it contains none
DescriptionBranch(d) ==
    IF Contains(DescLast6Months, d) THEN 1
    ELSE IF Contains(DescThisMonth, d) THEN 2
    ELSE IF Contains(DescThisYear, d) THEN 3
    ELSE IF Contains(DescQ1_2024, d) THEN 4
    ELSE IF Contains(DescLastYear, d) THEN 5
    ELSE 0

\* src/mcp_orchestrator.py: start and end are assigned only from the planner's
\* strings; the return statement reads them
parse_time_period_main(period_data, today) ==
    IF period_data.t # "obj" THEN Raise("AttributeError")
    ELSE LET pd == period_data.v
             description == GetDefault(pd.description, JStr(<<>>))
             s == IF Truthy(Get(pd.start)) THEN IsoOf(pd.start) ELSE Raise("unbound")
             e == IF Truthy(Get(pd.end)) THEN IsoOf(pd.end) ELSE Raise("unbound")
         IN  IF s.exc \notin {"none", "unbound"} THEN s
             ELSE IF e.exc \notin {"none", "unbound"} THEN e
             ELSE IF s.exc = "unbound" \/ e.exc = "unbound"
                  THEN Raise("UnboundLocalError")
             ELSE Ok([start |-> s.val, end |-> e.val,
                      description |-> IF Truthy(description) THEN description
                                      ELSE JStr(RangeText(s.val, e.val))])

\* src/colab/mcp_orchestrator.py: defaults, the description's keywords, then the
\* planner's strings, each under try/except: pass
parse_time_period_colab(period_data, today) ==
    IF period_data.t # "obj" THEN Raise("AttributeError")
    ELSE LET pd == period_data.v
             description == GetDefault(pd.description, JStr(<<>>))
         IN  IF description.t # "str" THEN Raise("AttributeError")
             ELSE
             LET branch == DescriptionBranch(Lower(description.v))
                 start0 ==
                     CASE branch = 1 -> today - 30 * 6
                       [] branch = 2 -> MkDate(YearOf(today), MonthOf(today), 1)
                       [] branch = 3 -> MkDate(YearOf(today), 1, 1)
                       [] branch = 4 -> MkDate(2024, 1, 1)
                       [] branch = 5 -> MkDate(YearOf(today) - 1, 1, 1)
                       [] OTHER -> today - 30
                 end0 ==
                     CASE branch = 4 -> MkDate(2024, 3, 31)
                       [] branch = 5 -> MkDate(YearOf(today) - 1, 12, 31)
                       [] OTHER -> today
                 s == IF Truthy(Get(pd.start)) THEN IsoOf(pd.start) ELSE Raise("skip")
                 e == IF Truthy(Get(pd.end)) THEN IsoOf(pd.end) ELSE Raise("skip")
                 start == IF s.exc = "none" THEN s.val ELSE start0
                 end == IF e.exc = "none" THEN e.val ELSE end0
             IN  Ok([start |-> start, end |-> end,
                     description |-> IF Truthy(description) THEN description
                                     ELSE JStr(RangeText(start, end))])

\* src/llm_query_planner.py: relative periods by description, absolute ones by
\* dateutil's parser; the result has no description
parse_time_period_legacy(period_data, today) ==
    IF period_data.t # "obj" THEN Raise("AttributeError")
    ELSE LET pd == period_data.v
             description == GetDefault(pd.description, JStr(<<>>))
         IN  IF Get(pd.type) = JStr(StrRelative)
             THEN IF description.t # "str" THEN Raise("TypeError")
                  ELSE LET branch == DescriptionBranch(description.v)
                       IN  Ok([start |->
                                   CASE branch = 1 -> today - 30 * 6
                                     [] branch = 2 ->
                                           MkDate(YearOf(today), MonthOf(today), 1)
                                     [] branch = 3 -> MkDate(YearOf(today), 1, 1)
                                     [] OTHER -> today - 30,
                               end |-> today])
             ELSE LET s == IF Truthy(Get(pd.start)) THEN IsoOf(pd.start)
                           ELSE Ok(today - 30)
                      e == IF Truthy(Get(pd.end)) THEN IsoOf(pd.end) ELSE Ok(today)
                  IN  IF s.exc # "none" THEN s
                      ELSE IF e.exc # "none" THEN e
                      ELSE Ok([start |-> s.val, end |-> e.val])

parse_time_period(variant, period_data, today) ==
    CASE variant = "main" -> parse_time_period_main(period_data, today)
      [] variant = "colab" -> parse_time_period_colab(period_data, today)
      [] OTHER -> parse_time_period_legacy(period_data, today)

(***************************************************************************)
(* DeepSeekPlanner: _create_default_plan and create_analysis_plan.  An     *)
(* AnalysisPlan is a record; additional_filters, which nothing reads, is   *)
(* left out.                                                               *)
(***************************************************************************)
\* the tags sniffed from the query, in the order of the if statements
DefaultTags(variant, user_query) ==
    LET q == Lower(user_query)
    IN  IF variant = "main"
        THEN (IF Contains(KwQuality, q) THEN <<JStr(FallbackTagMain)>> ELSE <<>>)
             \o (IF Contains(KwDelivery, q) THEN <<JStr(DeliveryTagMain)>> ELSE <<>>)
        ELSE (IF Contains(KwQuality, q) \/ Contains(KwWash, q)
              THEN <<JStr(FallbackTagColab)>> ELSE <<>>)
             \o (IF Contains(KwPrice, q) \/ Contains(KwExpensive, q)
                 THEN <<JStr(PriceTagColab)>> ELSE <<>>)
             \o (IF Contains(KwConsult, q) \/ Contains(KwClarify, q)
                 THEN <<JStr(ConsultTagColab)>> ELSE <<>>)

create_default_plan(variant, user_query, today) ==
    [time_period |-> [start |-> today - 30 * 6, end |-> today,
                      description |-> JStr(DescLast6Months)],
     target_tags |-> IF DefaultTags(variant, user_query) # <<>>
                     THEN DefaultTags(variant, user_query)
                     ELSE FallbackTags(variant),
     metrics |-> <<"COUNT_BY_TAG", "TAG_TRENDS">>,
     grouping |-> JStr(StrMonth),
     comparison_tags |-> JNull]

\* the body of create_analysis_plan up to its return statement.  llm is the
\* outcome of client.generate: kind "raise" (the call raises), "malformed" (the
\* response has no 'response' key), "badjson" (json.loads raises) or "json"
\* (json.loads returns llm.data)
PlanFromLLM(variant, llm, today) ==
    CASE llm.kind = "raise" -> Raise("ResponseError")
      [] llm.kind = "malformed" -> Raise("KeyError")
      [] llm.kind = "badjson" -> Raise("JSONDecodeError")
      [] OTHER ->
         IF llm.data.t # "obj" THEN Raise("AttributeError")
         ELSE
         LET plan_data == llm.data.v
             time_period == parse_time_period(variant,
                                GetDefault(plan_data.time_period, EmptyPeriod), today)
             target_tags == validate_tags(variant,
                                GetDefault(plan_data.target_tags, JList(<<>>)))
             metrics == parse_metrics(variant,
                                GetDefault(plan_data.metrics, JList(<<>>)))
         IN  IF time_period.exc # "none" THEN time_period
             ELSE IF target_tags.exc # "none" THEN target_tags
             ELSE IF metrics.exc # "none" THEN metrics
             ELSE Ok([time_period |-> time_period.val,
                      target_tags |-> target_tags.val,
                      metrics |-> metrics.val,
                      grouping |-> GetDefault(plan_data.grouping, JStr(StrMonth)),
                      comparison_tags |->
                          GetDefault(plan_data.comparison_tags, JList(<<>>))])

\* main and colab wrap the body in try/except Exception and return the default
\* plan; src/llm_query_planner.py has no try
create_analysis_plan(variant, user_query, llm, today) ==
    LET r == PlanFromLLM(variant, llm, today)
    IN  IF r.exc = "none" THEN r
        ELSE IF variant = "legacy" THEN r
        ELSE Ok(create_default_plan(variant, user_query, today))

(***************************************************************************)
(* Python dicts keep insertion order: a dict is a sequence of entries      *)
(* [k |-> key, v |-> value] with distinct keys.                            *)
(***************************************************************************)
DictHas(d, key) == \E i \in 1..Len(d) : d[i].k = key

DictGet(d, key, default) ==
    IF DictHas(d, key) THEN d[CHOOSE i \in 1..Len(d) : d[i].k = key].v ELSE default

\* d[key] = value
DictSet(d, key, value) ==
    IF DictHas(d, key)
    THEN [i \in 1..Len(d) |-> IF d[i].k = key THEN [k |-> key, v |-> value] ELSE d[i]]
    ELSE Append(d, [k |-> key, v |-> value])

\* d[key] += 1 on a defaultdict(int) or a Counter
DictInc(d, key) == DictSet(d, key, DictGet(d, key, 0) + 1)

DictKeys(d) == {d[i].k : i \in 1..Len(d)}

(***************************************************************************)
(* JSONQueryExecutor.  A call record is [id, call_date, tags], tags being  *)
(* a list of strings.                                                      *)
(***************************************************************************)
\* pandas' NaT, the datetime of an empty date cell: day 0, which no date has.
\* Every comparison with NaT is False
NaT == MkDate(2023, 1, 0)

\* the filter with the day of end_date left out
InPeriod_end_exclusive(call_date, period) ==
    /\ call_date # NaT
    /\ period.start <= call_date
    /\ call_date < period.end

\* start_date <= call_date <= end_date
InPeriod(call_date, period) ==
    /\ call_date # NaT
    /\ period.start <= call_date
    /\ call_date <= period.end

RECURSIVE FilterLoop(_, _, _, _)
FilterLoop(calls, period, i, filtered) ==
    IF i > Len(calls) THEN filtered
    ELSE FilterLoop(calls, period, i + 1,
                    IF InPeriod(calls[i].call_date, period)
                    THEN Append(filtered, calls[i]) ELSE filtered)

filter_calls_by_period(calls, period) == FilterLoop(calls, period, 1, <<>>)

\* the scan without the break: the index of the last target that matches
RECURSIVE FirstTarget_last_match(_, _, _)
FirstTarget_last_match(tag, target_tags, j) ==
    IF j > Len(target_tags) THEN Ok(0)
    ELSE IF target_tags[j].t # "str" THEN Raise("AttributeError")
    ELSE LET rest == FirstTarget_last_match(tag, target_tags, j + 1)
         IN  IF rest.exc # "none" \/ rest.val # 0 THEN rest
             ELSE IF FuzzyMatch(target_tags[j].v, tag) THEN Ok(j)
             ELSE Ok(0)

\* "for target in target_tags: if <match>: ...; break": the index of the first
\* target that matches tag, 0 when none does; target.lower() raises on None
RECURSIVE FirstTarget(_, _, _)
FirstTarget(tag, target_tags, j) ==
    IF j > Len(target_tags) THEN Ok(0)
    ELSE IF target_tags[j].t # "str" THEN Raise("AttributeError")
    ELSE IF FuzzyMatch(target_tags[j].v, tag) THEN Ok(j)
    ELSE FirstTarget(tag, target_tags, j + 1)

\* "for call in calls: for tag in call['tags']": the tags in the order the two
\* loops visit them, each with the date of its call
RECURSIVE TagOccurrences(_)
TagOccurrences(calls) ==
    IF calls = <<>> THEN <<>>
    ELSE [i \in 1..Len(calls[1].tags) |->
             [call_date |-> calls[1].call_date, tag |-> calls[1].tags[i]]]
         \o TagOccurrences(Tail(calls))

RECURSIVE CountLoop(_, _, _, _)
CountLoop(occ, target_tags, i, counts) ==
    IF i > Len(occ) THEN Ok(counts)
    ELSE LET m == FirstTarget(occ[i].tag, target_tags, 1)
         IN  IF m.exc # "none" THEN m
             ELSE CountLoop(occ, target_tags, i + 1,
                            IF m.val = 0 THEN counts
                            ELSE DictInc(counts, target_tags[m.val]))

count_by_tag(calls, target_tags) ==
    CountLoop(TagOccurrences(calls), target_tags, 1, <<>>)

\* the key of the day whatever the grouping
PeriodKey_by_day(call_date, grouping) == FormatDay(call_date)

\* the key of the period a call falls in
PeriodKey(call_date, grouping) ==
    IF grouping = JStr(StrMonth) THEN FormatMonth(call_date)
    ELSE IF grouping = JStr(StrWeek) THEN FormatWeek(call_date)
    ELSE FormatDay(call_date)

\* trends[target][period_key] = 1, an assignment in place of the increment
TrendInc_assign_one(trends, target, period_key) ==
    DictSet(trends, target, DictSet(DictGet(trends, target, <<>>), period_key, 1))

\* trends[target][period_key] += 1 on the nested defaultdict
TrendInc(trends, target, period_key) ==
    DictSet(trends, target, DictInc(DictGet(trends, target, <<>>), period_key))

RECURSIVE TrendLoop(_, _, _, _, _)
TrendLoop(occ, target_tags, grouping, i, trends) ==
    IF i > Len(occ) THEN Ok(trends)
    ELSE LET m == FirstTarget(occ[i].tag, target_tags, 1)
         IN  IF m.exc # "none" THEN m
             ELSE TrendLoop(occ, target_tags, grouping, i + 1,
                            IF m.val = 0 THEN trends
                            ELSE TrendInc(trends, target_tags[m.val],
                                          PeriodKey(occ[i].call_date, grouping)))

\* sorted(period_counts.items()): insertion sort by the period key
RECURSIVE SortedInsert(_, _)
SortedInsert(sorted, e) ==
    IF sorted = <<>> THEN <<e>>
    ELSE IF StrLess(e.k, sorted[1].k) THEN <<e>> \o sorted
    ELSE <<sorted[1]>> \o SortedInsert(Tail(sorted), e)

\* period_counts.items() as they are, in insertion order
SortedItems_insertion_order(d) == d

RECURSIVE SortedItems(_)
SortedItems(d) ==
    IF d = <<>> THEN <<>>
    ELSE SortedInsert(SortedItems(SubSeq(d, 1, Len(d) - 1)), d[Len(d)])

\* the early return differs: "if not target_tags" in main,
\* "if not target_tags or not calls" in colab
tag_trends(variant, calls, target_tags, grouping) ==
    IF target_tags = <<>> \/ (variant = "colab" /\ calls = <<>>) THEN Ok(<<>>)
    ELSE LET t == TrendLoop(TagOccurrences(calls), target_tags, grouping, 1, <<>>)
         IN  IF t.exc # "none" THEN t
             ELSE Ok([i \in 1..Len(t.val) |->
                        [k |-> t.val[i].k,
                         v |-> [j \in 1..Len(t.val[i].v) |->
                                  [period |-> SortedItems(t.val[i].v)[j].k,
                                   count |-> SortedItems(t.val[i].v)[j].v]]]])

\* tag_counter.update(call['tags']) over all calls
RECURSIVE CounterLoop(_, _, _)
CounterLoop(occ, i, tag_counter) ==
    IF i > Len(occ) THEN tag_counter
    ELSE CounterLoop(occ, i + 1, DictInc(tag_counter, occ[i].tag))

\* Counter.most_common(n) is sorted(items, key=count, reverse=True)[:n], a stable
\* sort: the first entry with the greatest count, then the rest
\* a sort that puts the entry met last first among equal counts
RECURSIVE MostCommon_last_of_ties(_, _)
MostCommon_last_of_ties(items, n) ==
    IF n = 0 \/ items = <<>> THEN <<>>
    ELSE LET best == CHOOSE i \in 1..Len(items) :
                        /\ \A j \in 1..Len(items) : items[j].v <= items[i].v
                        /\ \A j \in (i + 1)..Len(items) : items[j].v < items[i].v
         IN  <<items[best]>>
             \o MostCommon_last_of_ties(SubSeq(items, 1, best - 1)
                                        \o SubSeq(items, best + 1, Len(items)), n - 1)

RECURSIVE MostCommon(_, _)
MostCommon(items, n) ==
    IF n = 0 \/ items = <<>> THEN <<>>
    ELSE LET best == CHOOSE i \in 1..Len(items) :
                        /\ \A j \in 1..Len(items) : items[j].v <= items[i].v
                        /\ \A j \in 1..(i - 1) : items[j].v < items[i].v
         IN  <<items[best]>>
             \o MostCommon(SubSeq(items, 1, best - 1)
                           \o SubSeq(items, best + 1, Len(items)), n - 1)

top_n_tags(calls, n) ==
    LET common == MostCommon(CounterLoop(TagOccurrences(calls), 1, <<>>), n)
    IN  [i \in 1..Len(common) |-> [tag |-> common[i].k, count |-> common[i].v]]

\* tags + [None] * (2 - len(tags))
PadToTwo(tags) ==
    IF Len(tags) < 2 THEN tags \o [i \in 1..(2 - Len(tags)) |-> JNull] ELSE tags

\* a / b on integers: a float, kept as the pair of numerator and denominator
TrueDiv(a, b) ==
    IF b = 0 THEN Raise("ZeroDivisionError") ELSE Ok([num |-> a, den |-> b])

\* _compare_tags with "'ratio': counts.get(tags[0], 0) / counts.get(tags[1], 0)"
compare_tags_unguarded(calls, tags) ==
    LET padded == PadToTwo(tags)
        counts == count_by_tag(calls, SubSeq(padded, 1, 2))
    IN  IF counts.exc # "none" THEN counts
        ELSE LET c1 == DictGet(counts.val, padded[1], 0)
                 c2 == DictGet(counts.val, padded[2], 0)
                 ratio == TrueDiv(c1, c2)
             IN  IF ratio.exc # "none" THEN ratio
                 ELSE Ok([tag1 |-> [name |-> padded[1], count |-> c1],
                          tag2 |-> [name |-> padded[2], count |-> c2],
                          total_calls |-> Len(calls),
                          ratio |-> ratio.val])

\* ratio is "a / b if counts.get(tags[1], 0) > 0 else 0", the integer 0 kept
\* as the pair 0, 1
compare_tags(calls, tags) ==
    LET padded == PadToTwo(tags)
        counts == count_by_tag(calls, SubSeq(padded, 1, 2))
    IN  IF counts.exc # "none" THEN counts
        ELSE LET c1 == DictGet(counts.val, padded[1], 0)
                 c2 == DictGet(counts.val, padded[2], 0)
                 ratio == IF c2 > 0
                          THEN TrueDiv(c1, DictGet(counts.val, padded[2], 1))
                          ELSE Ok([num |-> 0, den |-> 1])
             IN  IF ratio.exc # "none" THEN ratio
                 ELSE Ok([tag1 |-> [name |-> padded[1], count |-> c1],
                          tag2 |-> [name |-> padded[2], count |-> c2],
                          total_calls |-> Len(calls),
                          ratio |-> ratio.val])

\* 'Нет данных для анализа'
NoDataText == <<"N","e","t"," ","d","a","n","n","y","h"," ","d","l","ya"," ","a","n","a","l","i","z","a">>

\* f"{start.strftime('%Y-%m-%d')} - {end.strftime('%Y-%m-%d')}"
DateRange(period) ==
    FormatDay(period.start) \o <<" ", "-", " ">> \o FormatDay(period.end)

\* results['summary_stats']; colab adds the data source, 'Local' when the
\* loader has no drive_path
SummaryStats(variant, total_calls, plan) ==
    IF variant = "colab"
    THEN [total_calls |-> total_calls,
          period |-> plan.time_period.description,
          date_range |-> DateRange(plan.time_period),
          data_source |-> "Local"]
    ELSE [total_calls |-> total_calls,
          period |-> plan.time_period.description,
          date_range |-> DateRange(plan.time_period)]

\* one pass of "for metric in plan.metrics"
MetricResult(variant, metric, filtered_calls, plan) ==
    CASE metric = "COUNT_BY_TAG" -> count_by_tag(filtered_calls, plan.target_tags)
      [] metric = "TAG_TRENDS" ->
            tag_trends(variant, filtered_calls, plan.target_tags, plan.grouping)
      [] metric = "TOP_N_TAGS" -> Ok(top_n_tags(filtered_calls, 5))
      [] metric = "COMPARISON" ->
            compare_tags(filtered_calls,
                         IF Truthy(plan.comparison_tags) THEN plan.comparison_tags.v
                         ELSE SubSeq(plan.target_tags, 1,
                                     IF Len(plan.target_tags) < 2
                                     THEN Len(plan.target_tags) ELSE 2))
      [] OTHER -> Raise("skip")

MetricKey(metric) ==
    CASE metric = "COUNT_BY_TAG" -> "count_by_tag"
      [] metric = "TAG_TRENDS" -> "tag_trends"
      [] metric = "TOP_N_TAGS" -> "top_n_tags"
      [] metric = "COMPARISON" -> "comparison"
      [] OTHER -> "none"

\* the loop over plan.metrics leaving after its first pass
MetricsPass_first_only(variant, filtered_calls, plan, i, results) ==
    IF i > Len(plan.metrics) \/ i > 1 THEN Ok(results)
    ELSE LET r == MetricResult(variant, plan.metrics[i], filtered_calls, plan)
         IN  IF r.exc = "skip" THEN Ok(results)
             ELSE IF r.exc # "none" THEN r
             ELSE Ok(DictSet(results, MetricKey(plan.metrics[i]), r.val))

RECURSIVE MetricsPass(_, _, _, _, _)
MetricsPass(variant, filtered_calls, plan, i, results) ==
    IF i > Len(plan.metrics) THEN Ok(results)
    ELSE LET r == MetricResult(variant, plan.metrics[i], filtered_calls, plan)
         IN  IF r.exc = "skip"
             THEN MetricsPass(variant, filtered_calls, plan, i + 1, results)
             ELSE IF r.exc # "none" THEN r
             ELSE MetricsPass(variant, filtered_calls, plan, i + 1,
                              DictSet(results, MetricKey(plan.metrics[i]), r.val))

\* execute_plan on the list load_all_calls() returned.  colab returns the
\* 'error' bundle for an empty list, its summary_stats without the data
\* source; main has no such branch
execute_plan(variant, all_calls, plan) ==
    IF variant = "colab" /\ all_calls = <<>>
    THEN Ok(<<[k |-> "error", v |-> NoDataText],
              [k |-> "summary_stats", v |-> SummaryStats("main", 0, plan)]>>)
    ELSE Bind(filter_calls_by_period(all_calls, plan.time_period),
           LAMBDA filtered_calls :
             Bind(MetricsPass(variant, filtered_calls, plan, 1, <<>>),
               LAMBDA results :
                 IF results.exc # "none" THEN results
                 ELSE Ok(DictSet(results.val, "summary_stats",
                                 SummaryStats(variant, Len(filtered_calls), plan)))))

(***************************************************************************)
(* State.  The planner, the engine and the analyzer keep no state between  *)
(* calls: call records one call of one of them, its arguments drawn by the *)
(* initial state and its outcome (out) added by the operation.             *)
(***************************************************************************)
VARIABLES
    call,         \* [op, variant, <arguments>, done] and, once done, out
    storage,      \* the loader's directory: [variant, kind, files]
    calls_cache,  \* the loader's calls_cache
    conn,         \* the loader's conn, the in-memory database: its two tables
    loads,        \* the calls of load_all_calls so far: [limit, out, read_storage, store]
    session       \* the interactive loop: [variant, calls, pc, query_history, ...]

vars == <<call, storage, calls_cache, conn, loads, session>>

loaderVars == <<storage, calls_cache, conn, loads>>

\* self.calls_cache = None
None == [isNone |-> TRUE]

\* the values of the variables a specification leaves alone
NoCall == [op |-> "none", done |-> TRUE]

LoaderIdle ==
    storage = [variant |-> "none"] /\ calls_cache = None /\ conn = None /\ loads = <<>>

SessionIdle == session = [variant |-> "none"]

(***************************************************************************)
(* Inputs of the planner: user queries, the clock, and what the planner    *)
(* LLM answers.                                                            *)
(***************************************************************************)
\* the longest list of candidate tags and of metric literals the LLM returns
MaxCandidates == 2

SeqsUpTo(S, n) == UNION {[1..k -> S] : k \in 0..n}

\* 'Качество стирки', 'доставка цены', 'привет'
Queries == {<<"K","a","ch","e","s","t","v","o"," ","s","t","i","r","k","i">>,
            <<"d","o","s","t","a","v","k","a"," ","c","e","n","y">>,
            <<"p","r","i","v","e","t">>}

\* datetime.now()
Todays == {MkDate(2024, 3, 15), MkDate(2024, 7, 19)}

\* candidate tags: 'Долг' (matches a vocabulary entry), 'xyz' (matches none),
\* the number 7
CandidatePool == {JStr(<<"D","o","l","g">>), JStr(<<"x", "y", "z">>), JNum(7)}

TagValues == {JMissing, JNull} \cup {JList(s) : s \in SeqsUpTo(CandidatePool, MaxCandidates)}

\* start and end as the LLM writes them: absent, null, a date, no date ('soon')
DateValues == {JMissing, JNull, JStr(FormatDay(MkDate(2024, 1, 1))),
               JStr(FormatDay(MkDate(2024, 5, 1))), JStr(<<"s", "o", "o", "n">>)}

DescriptionValues == {JMissing, JNull, JStr(DescThisYear)}

PeriodObjects ==
    {JObj([description |-> d, start |-> s, end |-> e, type |-> t]) :
        d \in DescriptionValues, s \in DateValues, e \in DateValues,
        t \in {JMissing, JStr(StrRelative)}}

PeriodValues == {JMissing, JNull} \cup PeriodObjects

MetricValues ==
    {JMissing, JNull, JList(<<JStr(StrTagTrends), JStr(<<"x">>), JStr(StrComparison)>>),
     JList(<<JStr(<<"x">>)>>), JList(<<JList(<<>>)>>),
     JList(<<JStr(StrSentiment), JStr(StrCountByTag)>>)}

GroupingValues == {JMissing, JNull, JStr(StrWeek), JStr(<<"x">>)}

\* a well-formed answer: 2024-01-01 to 2024-05-01, one known tag, no metrics
GoodPeriod ==
    JObj([description |-> JMissing, start |-> JStr(FormatDay(MkDate(2024, 1, 1))),
          end |-> JStr(FormatDay(MkDate(2024, 5, 1))), type |-> JMissing])

PlanObject(p, t, m, g) ==
    JObj([time_period |-> p, target_tags |-> t, metrics |-> m, grouping |-> g,
          comparison_tags |-> JMissing])

\* the JSON values json.loads can return: objects that vary the period, objects
\* that vary tags, metrics and grouping, and a value that is no object
PlanData ==
    {PlanObject(p, JList(<<>>), JMissing, JMissing) : p \in PeriodValues}
    \cup {PlanObject(GoodPeriod, t, m, g) :
             t \in TagValues, m \in MetricValues, g \in GroupingValues}
    \cup {JList(<<>>)}

LLMPlans ==
    {[kind |-> "raise"], [kind |-> "malformed"], [kind |-> "badjson"]}
    \cup {[kind |-> "json", data |-> d] : d \in PlanData}

Variants == {"main", "colab", "legacy"}

(***************************************************************************)
(* The planner's operations.                                               *)
(***************************************************************************)
PlannerCalls ==
    {[op |-> "create_analysis_plan", variant |-> variant, user_query |-> user_query,
      llm |-> llm, today |-> today, done |-> FALSE] :
        variant \in Variants, user_query \in Queries, llm \in LLMPlans, today \in Todays}
    \cup {[op |-> "parse_time_period", variant |-> variant, arg |-> period_data,
           today |-> today, done |-> FALSE] :
             variant \in Variants, period_data \in PeriodObjects, today \in Todays}
    \cup {[op |-> "validate_tags", variant |-> variant, arg |-> tags, done |-> FALSE] :
             variant \in Variants, tags \in TagValues \ {JMissing}}
    \cup {[op |-> "parse_metrics", variant |-> variant, arg |-> metrics, done |-> FALSE] :
             variant \in Variants, metrics \in MetricValues \ {JMissing}}

\* the call record once the operation has returned or raised
Done(c, out) == [c EXCEPT !.done = TRUE] @@ [out |-> out]

CreatePlan ==
    /\ call.op = "create_analysis_plan" /\ ~call.done
    /\ call' = Done(call, create_analysis_plan(call.variant, call.user_query,
                                               call.llm, call.today))
    /\ UNCHANGED <<loaderVars, session>>

CallParseTimePeriod ==
    /\ call.op = "parse_time_period" /\ ~call.done
    /\ call' = Done(call, parse_time_period(call.variant, call.arg, call.today))
    /\ UNCHANGED <<loaderVars, session>>

CallValidateTags ==
    /\ call.op = "validate_tags" /\ ~call.done
    /\ call' = Done(call, validate_tags(call.variant, call.arg))
    /\ UNCHANGED <<loaderVars, session>>

CallParseMetrics ==
    /\ call.op = "parse_metrics" /\ ~call.done
    /\ call' = Done(call, parse_metrics(call.variant, call.arg))
    /\ UNCHANGED <<loaderVars, session>>

PlannerInit == call \in PlannerCalls /\ LoaderIdle /\ SessionIdle

PlannerNext == CreatePlan \/ CallParseTimePeriod \/ CallValidateTags \/ CallParseMetrics

SpecPlanner == PlannerInit /\ [][PlannerNext]_vars

(***************************************************************************)
(* Properties of the planner.                                              *)
(***************************************************************************)
Range(s) == {s[i] : i \in 1..Len(s)}

PlanReturned ==
    call.op = "create_analysis_plan" /\ call.done /\ call.out.exc = "none"

\* tags is a list of strings none of which matches a vocabulary entry
NoCandidateMatches(variant, tags) ==
    /\ tags.t = "list"
    /\ \A c \in Range(tags.v) :
          /\ c.t = "str"
          /\ \A a \in Range(AvailableTags(variant)) : ~FuzzyMatch(c.v, a)

\* C1: every plan create_analysis_plan returns has a non-empty target_tags
\* list, whatever the planner LLM did, and _validate_tags returns exactly one
\* tag when no candidate matches a vocabulary entry.
C1_TargetTagsNonEmpty ==
    /\ PlanReturned => Len(call.out.val.target_tags) >= 1
    /\ (call.op = "validate_tags" /\ call.done
            /\ NoCandidateMatches(call.variant, call.arg))
        => (call.out.exc = "none" /\ Len(call.out.val) = 1)

\* the LLM's JSON names only a candidate that matches nothing, the plan is
\* the one built from that JSON, and it carries one tag
C1_Witness ==
    /\ PlanReturned
    /\ call.llm.kind = "json"
    /\ call.llm.data.t = "obj"
    /\ call.llm.data.v.target_tags = JList(<<JStr(<<"x", "y", "z">>)>>)
    /\ call.out.val # create_default_plan(call.variant, call.user_query, call.today)
    /\ Len(call.out.val.target_tags) = 1

\* C2: every element of target_tags of a plan create_analysis_plan returns is
\* a member of the planner's available_tags.
C2_TargetTagsInVocabulary ==
    PlanReturned =>
        \A t \in Range(call.out.val.target_tags) :
            t.t = "str" /\ t.v \in Range(AvailableTags(call.variant))

\* C4: when the LLM call raises or its text is no valid JSON,
\* create_analysis_plan of every planner returns the default plan built from
\* the query's keywords and raises nothing.
C4_DefaultPlanOnBadLLM ==
    (call.op = "create_analysis_plan" /\ call.done
        /\ call.llm.kind \in {"raise", "badjson"})
    => /\ call.out.exc = "none"
       /\ call.out.val = create_default_plan(call.variant, call.user_query, call.today)

\* C5: _parse_time_period, _validate_tags and _parse_metrics of
\* src/mcp_orchestrator.py and src/colab/mcp_orchestrator.py raise nothing,
\* whatever mapping or value the planner LLM produced.
C5_ValidatorsNeverRaise ==
    (call.op \in {"parse_time_period", "validate_tags", "parse_metrics"}
        /\ call.variant \in {"main", "colab"} /\ call.done)
    => call.out.exc = "none"

\* C6: every plan create_analysis_plan of src/mcp_orchestrator.py and of
\* src/colab/mcp_orchestrator.py returns has
\* time_period.start <= time_period.end.
C6_StartNotAfterEnd ==
    (PlanReturned /\ call.variant \in {"main", "colab"})
    => call.out.val.time_period.start <= call.out.val.time_period.end

\* C19: the grouping of every plan create_analysis_plan returns is 'day',
\* 'week' or 'month', whatever the planner's response held under 'grouping'.
C19_GroupingIsDayWeekMonth ==
    (PlanReturned /\ call.variant = "main") =>
        call.out.val.grouping \in {JStr(StrDay), JStr(StrWeek), JStr(StrMonth)}

\* the four metric kinds of a plan
FourMetricKinds == {"COUNT_BY_TAG", "TOP_N_TAGS", "TAG_TRENDS", "COMPARISON"}

\* C20: what _parse_metrics returns for a list of strings is not empty and
\* holds only COUNT_BY_TAG, TOP_N_TAGS, TAG_TRENDS and COMPARISON, COUNT_BY_TAG
\* alone when no string of the list is one of the four literals; and so are the
\* metrics of every plan create_analysis_plan returns.
C20_MetricsOfTheFourKinds ==
    /\ (call.op = "parse_metrics" /\ call.done /\ call.out.exc = "none")
        => /\ call.out.val # <<>>
           /\ Range(call.out.val) \subseteq FourMetricKinds
           /\ (\A m \in Range(call.arg.v) :
                  m.v \notin {StrCountByTag, StrTopNTags, StrTagTrends, StrComparison})
                 => call.out.val = <<"COUNT_BY_TAG">>
    /\ PlanReturned
        => /\ call.out.val.metrics # <<>>
           /\ Range(call.out.val.metrics) \subseteq FourMetricKinds

(***************************************************************************)
(* The engine: execute_plan on a plan the planner returned and the list    *)
(* the loader returned.                                                    *)
(***************************************************************************)
\* the longest list of calls the loader returns
MaxCalls == 2

\* 'погашение_долга', the vocabulary entry the candidate 'Долг' matches first
DebtTag == <<"p","o","g","a","sh","e","n","i","e","_","d","o","l","g","a">>

\* 'долго_нет_ответа'
ScenarioTag == <<"d","o","l","g","o","_","n","e","t","_","o","t","v","e","t","a">>

\* the planner's answers the engine is run on: 2024-01-01 to 2024-05-01 with
\* one or two candidate tags, three metric lists and two groupings, and text
\* that is no JSON (the default plan)
ExecLLMs ==
    {[kind |-> "json", data |-> PlanObject(GoodPeriod, t, m, g)] :
        t \in {JList(<<JStr(<<"D","o","l","g">>)>>),
               JList(<<JStr(<<"x", "y", "z">>), JStr(<<"D","o","l","g">>)>>)},
        m \in {JMissing,
               JList(<<JStr(StrCountByTag), JStr(StrTagTrends)>>),
               JList(<<JStr(StrTopNTags), JStr(StrComparison)>>)},
        g \in {JMissing, JStr(StrWeek)}}
    \cup {[kind |-> "badjson"]}

ExecPlans(variant) ==
    {create_analysis_plan(variant, <<"p","r","i","v","e","t">>, llm,
                          MkDate(2024, 3, 15)).val : llm \in ExecLLMs}

\* the records of the collection: the days around 2024-01-01 and 2024-05-01,
\* and for the CSV loader a row whose date cell is empty
CallPool(variant) ==
    {[call_date |-> d, tags |-> <<DebtTag>>] :
        d \in {MkDate(2023, 12, 31), MkDate(2024, 1, 1), MkDate(2024, 5, 1),
               MkDate(2024, 5, 2)}}
    \cup {[call_date |-> MkDate(2024, 1, 1), tags |-> <<<<"x", "y", "z">>, DebtTag>>]}
    \cup (IF variant = "colab" THEN {[call_date |-> NaT, tags |-> <<DebtTag>>]}
          ELSE {})

\* 'id': f"call_{files_processed}": the records numbered in the order read
Numbered(rows) ==
    [i \in 1..Len(rows) |->
        [id |-> i - 1, call_date |-> rows[i].call_date, tags |-> rows[i].tags]]

CallLists(variant) == {Numbered(rows) : rows \in SeqsUpTo(CallPool(variant), MaxCalls)}

\* the collection and the plan of scenario A: calls of 2024-01-05, 2024-02-10
\* and 2024-02-20 tagged 'долго_нет_ответа', 'долго_нет_ответа' and
\* 'погашение_долга'; the period 2024-01-01 to 2024-02-28, the target
\* 'долго_нет_ответа', both metrics by month
ScenarioACalls ==
    Numbered(<<[call_date |-> MkDate(2024, 1, 5), tags |-> <<ScenarioTag>>],
               [call_date |-> MkDate(2024, 2, 10), tags |-> <<ScenarioTag>>],
               [call_date |-> MkDate(2024, 2, 20), tags |-> <<DebtTag>>]>>)

ScenarioAPlan ==
    [time_period |-> [start |-> MkDate(2024, 1, 1), end |-> MkDate(2024, 2, 28),
                      description |-> JStr(<<"A">>)],
     target_tags |-> <<JStr(ScenarioTag)>>,
     metrics |-> <<"COUNT_BY_TAG", "TAG_TRENDS">>,
     grouping |-> JStr(StrMonth),
     comparison_tags |-> JList(<<>>)]

ExecutorCalls ==
    {[op |-> "execute_plan", variant |-> variant, all_calls |-> all_calls,
      plan |-> plan, done |-> FALSE] :
        variant \in {"main"}, all_calls \in CallLists("main"), plan \in ExecPlans("main")}
    \cup
    {[op |-> "execute_plan", variant |-> variant, all_calls |-> ScenarioACalls,
      plan |-> ScenarioAPlan, done |-> FALSE] : variant \in {"main", "colab"}}
    \cup
    {[op |-> "execute_plan", variant |-> variant, all_calls |-> all_calls,
      plan |-> plan, done |-> FALSE] :
        variant \in {"colab"}, all_calls \in CallLists("colab"),
        plan \in ExecPlans("colab")}

ExecutePlan ==
    /\ call.op = "execute_plan" /\ ~call.done
    /\ call' = Done(call, execute_plan(call.variant, call.all_calls, call.plan))
    /\ UNCHANGED <<loaderVars, session>>

ExecutorInit == call \in ExecutorCalls /\ LoaderIdle /\ SessionIdle

ExecutorNext == ExecutePlan

SpecExecutor == ExecutorInit /\ [][ExecutorNext]_vars

(***************************************************************************)
(* Properties of the engine.                                               *)
(***************************************************************************)
ExecReturned == call.op = "execute_plan" /\ call.done /\ call.out.exc = "none"

\* the calls dated from start to end, both days included, in their order
WithinPeriod(calls, period) ==
    SelectSeq(calls, LAMBDA c : c.call_date # NaT /\ ~(c.call_date < period.start)
                                   /\ ~(period.end < c.call_date))

\* C3: summary_stats.total_calls is the number of calls dated from start
\* to end, both days included, and every metric of the result is the metric of
\* exactly those calls: a call dated outside adds to none of them.
C3_MetricsOverInclusivePeriod ==
    ExecReturned =>
        LET inside == WithinPeriod(call.all_calls, call.plan.time_period)
            results == call.out.val
        IN  /\ DictGet(results, "summary_stats", [total_calls |-> -1]).total_calls
                   = Len(inside)
            /\ \A i \in 1..Len(call.plan.metrics) :
                  LET key == MetricKey(call.plan.metrics[i])
                  IN  DictHas(results, key) =>
                         DictGet(results, key, <<>>)
                             = MetricResult(call.variant, call.plan.metrics[i],
                                            inside, call.plan).val

\* a call dated at start is counted and a call dated after end is not
C3_Witness ==
    /\ ExecReturned
    /\ Len(call.all_calls) = 2
    /\ call.all_calls[1].call_date = call.plan.time_period.start
    /\ call.all_calls[2].call_date > call.plan.time_period.end
    /\ DictGet(call.out.val, "summary_stats", [total_calls |-> -1]).total_calls = 1
    /\ DictGet(call.out.val, "count_by_tag", <<>>) = <<[k |-> JStr(DebtTag), v |-> 1]>>

\* C8: on an empty collection execute_plan of both orchestrators raises
\* nothing and returns only the 'error' entry and summary_stats with
\* total_calls 0, no metric.
C8_EmptyCollectionIsNoData ==
    (call.op = "execute_plan" /\ call.done /\ call.all_calls = <<>>)
    => /\ call.out.exc = "none"
       /\ DictKeys(call.out.val) = {"error", "summary_stats"}
       /\ DictGet(call.out.val, "summary_stats", [total_calls |-> -1]).total_calls = 0

\* the key execute_plan stores the result of a metric kind under
ResultKeyOf(metric) ==
    CASE metric = "COUNT_BY_TAG" -> "count_by_tag"
      [] metric = "TOP_N_TAGS" -> "top_n_tags"
      [] metric = "TAG_TRENDS" -> "tag_trends"
      [] metric = "COMPARISON" -> "comparison"

C16_ScenarioA ==
    (call.op = "execute_plan" /\ call.done /\ call.all_calls = ScenarioACalls
        /\ call.plan = ScenarioAPlan)
    => /\ call.out.exc = "none"
       /\ DictGet(call.out.val, "count_by_tag", <<>>)
              = <<[k |-> JStr(ScenarioTag), v |-> 2]>>
       /\ DictGet(call.out.val, "tag_trends", <<>>)
              = <<[k |-> JStr(ScenarioTag),
                   v |-> <<[period |-> <<"2","0","2","4","-","0","1">>, count |-> 1],
                           [period |-> <<"2","0","2","4","-","0","2">>, count |-> 1]>>]>>

\* scenario A has run in the engine that reads JSON files
C16_Witness ==
    /\ call.op = "execute_plan" /\ call.done /\ call.variant = "main"
    /\ call.all_calls = ScenarioACalls /\ call.plan = ScenarioAPlan
    /\ DictGet(call.out.val, "summary_stats", [total_calls |-> -1]).total_calls = 3

\* no call of the collection is dated in the period, or no tag of the calls
\* dated in it matches a target
EmptyResult(calls, plan) ==
    LET occ == TagOccurrences(WithinPeriod(calls, plan.time_period))
    IN  \A i \in 1..Len(occ) : FirstTarget(occ[i].tag, plan.target_tags, 1) = Ok(0)

\* the bundle says that there is no data: an entry that is neither the result
\* of a metric nor summary_stats, or a field of summary_stats besides the
\* counts, the period and the source
NoDataFlagged(results) ==
    \/ DictKeys(results) \ {"count_by_tag", "tag_trends", "top_n_tags", "comparison",
                            "summary_stats"} # {}
    \/ DOMAIN DictGet(results, "summary_stats", [total_calls |-> -1])
          \ {"total_calls", "period", "date_range", "data_source"} # {}

\* C21: on a collection that is not empty, of which no call is dated in
\* the plan's period or no tag matches a target, execute_plan raises nothing
\* and returns a bundle that carries an explicit flag of no data.
C21_EmptyResultIsFlagged ==
    (call.op = "execute_plan" /\ call.done /\ call.all_calls # <<>>
        /\ EmptyResult(call.all_calls, call.plan))
    => /\ call.out.exc = "none"
       /\ NoDataFlagged(call.out.val)

(***************************************************************************)
(* The loaders: JSONDataLoader (main, a directory of JSON files) and       *)
(* DriveDataLoader (colab, the first CSV file of a directory).  A list is  *)
(* an object: [obj |-> identity, val |-> items]; every list a call creates *)
(* gets the number of that call as its identity.                           *)
(***************************************************************************)
\* the number of load_all_calls() calls in a run
MaxLoads == 2

List(obj, val) == [isNone |-> FALSE, obj |-> obj, val |-> val]

\* the loop over sorted(os.listdir(json_dir)): files that are no .json are
\* skipped, a file that fails to load or to yield a date is reported and
\* skipped, the loop stops when limit records are read
RECURSIVE JsonLoop(_, _, _, _)
JsonLoop(files, limit, i, all_calls) ==
    IF i > Len(files) THEN all_calls
    ELSE IF ~files[i].json \/ ~files[i].ok
         THEN JsonLoop(files, limit, i + 1, all_calls)
    ELSE LET next == Append(all_calls, [id |-> Len(all_calls),
                                        call_date |-> files[i].call_date,
                                        tags |-> files[i].tags])
         IN  IF limit # 0 /\ Len(next) >= limit THEN next
             ELSE JsonLoop(files, limit, i + 1, next)

\* the loop over df.iterrows(): it stops after the row with idx + 1 >= limit
RECURSIVE CsvLoop(_, _, _, _)
CsvLoop(rows, limit, i, all_calls) ==
    IF i > Len(rows) THEN all_calls
    ELSE LET next == Append(all_calls, [id |-> i - 1,
                                        call_date |-> rows[i].call_date,
                                        tags |-> rows[i].tags])
         IN  IF limit # 0 /\ i >= limit THEN next
             ELSE CsvLoop(rows, limit, i + 1, next)

\* the date range printed after the cache is set: min(dates).strftime raises
\* when the first date is NaT and NaT is truthy, which is up to pandas
StatisticsMayRaise(all_calls) ==
    all_calls # <<>> /\ all_calls[1].call_date = NaT

\* load_all_calls whose cache hit with a limit keeps the slice:
\* "self.calls_cache = self.calls_cache[:limit]"
load_all_calls_keeping_slice(store, cache, limit, obj, stats_raise) ==
    IF ~cache.isNone
    THEN LET hit == IF limit # 0
                    THEN List(obj, SubSeq(cache.val, 1,
                                          IF limit < Len(cache.val) THEN limit
                                          ELSE Len(cache.val)))
                    ELSE cache
         IN  [cache |-> hit, out |-> Ok(hit), read_storage |-> FALSE]
    ELSE IF store.variant = "main"
    THEN IF store.kind = "missing"
         THEN [cache |-> cache, out |-> Raise("FileNotFoundError"),
               read_storage |-> TRUE]
         ELSE LET all_calls == List(obj, JsonLoop(store.files, limit, 1, <<>>))
              IN  [cache |-> all_calls, out |-> Ok(all_calls), read_storage |-> TRUE]
    ELSE IF store.kind \in {"missing", "unlistable", "no_csv", "unreadable",
                            "missing_columns"}
         THEN [cache |-> cache, out |-> Ok(List(obj, <<>>)), read_storage |-> TRUE]
         ELSE LET all_calls == List(obj, CsvLoop(store.files, limit, 1, <<>>))
              IN  [cache |-> all_calls,
                   out |-> IF stats_raise THEN Ok(List(obj, <<>>)) ELSE Ok(all_calls),
                   read_storage |-> TRUE]

\* load_all_calls(limit) of the loader of store.variant; limit 0 stands for
\* None, which "if limit" does not tell from 0.  obj is the identity of a list
\* the call creates, stats_raise whether the statistics raise.  The result is
\* the cache after the call, what the call returns or raises, and whether it
\* read the storage
load_all_calls(store, cache, limit, obj, stats_raise) ==
    IF ~cache.isNone
    THEN [cache |-> cache,
          out |-> Ok(IF limit # 0
                     THEN List(obj, SubSeq(cache.val, 1,
                                           IF limit < Len(cache.val) THEN limit
                                           ELSE Len(cache.val)))
                     ELSE cache),
          read_storage |-> FALSE]
    ELSE IF store.variant = "main"
    THEN IF store.kind = "missing"
         THEN [cache |-> cache, out |-> Raise("FileNotFoundError"),
               read_storage |-> TRUE]
         ELSE LET all_calls == List(obj, JsonLoop(store.files, limit, 1, <<>>))
              IN  [cache |-> all_calls, out |-> Ok(all_calls), read_storage |-> TRUE]
    ELSE IF store.kind \in {"missing", "unlistable", "no_csv", "unreadable",
                            "missing_columns"}
         THEN [cache |-> cache, out |-> Ok(List(obj, <<>>)), read_storage |-> TRUE]
         ELSE LET all_calls == List(obj, CsvLoop(store.files, limit, 1, <<>>))
              IN  [cache |-> all_calls,
                   out |-> IF stats_raise THEN Ok(List(obj, <<>>)) ELSE Ok(all_calls),
                   read_storage |-> TRUE]

\* what load_all_calls(limit) can do on this loader: the statistics of the CSV
\* loader raise or not when the first date is NaT
LoadOutcomes(store, cache, limit, obj) ==
    {load_all_calls(store, cache, limit, obj, stats_raise) :
        stats_raise \in {b \in BOOLEAN :
                            b => /\ store.variant = "colab"
                                 /\ store.kind = "rows"
                                 /\ cache.isNone
                                 /\ StatisticsMayRaise(CsvLoop(store.files, limit, 1,
                                                               <<>>))}}

\* "for call in calls: INSERT INTO calls ...; for tag in call['tags']: INSERT
\* INTO call_tags ...": the rows of call_tags in the order of insertion
RECURSIVE CallTagRows(_)
CallTagRows(calls) ==
    IF calls = <<>> THEN <<>>
    ELSE [i \in 1..Len(calls[1].tags) |->
             [call_id |-> calls[1].id, tag |-> calls[1].tags[i]]]
         \o CallTagRows(Tail(calls))

\* the connection with its two tables after the inserts of these calls
Tables(calls) ==
    [isNone |-> FALSE,
     calls |-> [i \in 1..Len(calls) |->
                  [id |-> calls[i].id, call_date |-> calls[i].call_date]],
     call_tags |-> CallTagRows(calls)]

\* setup_in_memory_db: a loader that has a connection returns it; otherwise
\* self.conn is assigned, the two tables are created, and the list
\* load_all_calls() returns is inserted.  loaded is the outcome of that
\* load_all_calls(): when it raises, the connection stays with empty tables
setup_in_memory_db(db, cache, loaded) ==
    IF ~db.isNone THEN [conn |-> db, cache |-> cache, out |-> Ok("conn"), loaded |-> FALSE]
    ELSE IF loaded.out.exc # "none"
    THEN [conn |-> Tables(<<>>), cache |-> loaded.cache, out |-> loaded.out,
          loaded |-> TRUE]
    ELSE [conn |-> Tables(loaded.out.val.val), cache |-> loaded.cache,
          out |-> Ok("conn"), loaded |-> TRUE]

\* get_cursor: "if self.conn is None: self.setup_in_memory_db()", then a cursor
\* of self.conn
get_cursor(db, cache, loaded) ==
    LET s == setup_in_memory_db(db, cache, loaded)
    IN  IF db.isNone
        THEN [s EXCEPT !.out = IF s.out.exc # "none" THEN s.out ELSE Ok("cursor")]
        ELSE [conn |-> db, cache |-> cache, out |-> Ok("cursor"), loaded |-> FALSE]

\* the files of a JSON directory, sorted by name: a record of 2024-01-01, a
\* file that is no JSON document, a record of 2024-05-01
JsonFiles ==
    <<[json |-> TRUE, ok |-> TRUE, call_date |-> MkDate(2024, 1, 1), tags |-> <<DebtTag>>],
      [json |-> TRUE, ok |-> FALSE, call_date |-> NaT, tags |-> <<>>],
      [json |-> TRUE, ok |-> TRUE, call_date |-> MkDate(2024, 5, 1),
       tags |-> <<<<"x", "y", "z">>, DebtTag>>]>>

\* the rows of a CSV file; the second list starts with an empty date cell
CsvRows ==
    {<<[call_date |-> MkDate(2024, 1, 1), tags |-> <<DebtTag>>],
       [call_date |-> MkDate(2024, 5, 1), tags |-> <<<<"x", "y", "z">>, DebtTag>>]>>,
     <<[call_date |-> NaT, tags |-> <<DebtTag>>],
       [call_date |-> MkDate(2024, 1, 1), tags |-> <<DebtTag>>]>>}

Storages ==
    {[variant |-> "main", kind |-> "missing", files |-> <<>>],
     [variant |-> "main", kind |-> "dir", files |-> <<>>],
     [variant |-> "main", kind |-> "dir",
      files |-> <<[json |-> FALSE, ok |-> FALSE, call_date |-> NaT, tags |-> <<>>]>>],
     [variant |-> "main", kind |-> "dir", files |-> JsonFiles]}
    \cup {[variant |-> "colab", kind |-> k, files |-> <<>>] :
             k \in {"missing", "unlistable", "no_csv", "unreadable", "missing_columns",
                    "rows"}}
    \cup {[variant |-> "colab", kind |-> "rows", files |-> rows] : rows \in CsvRows}

Limits == {0, 1}

LoadAllCalls ==
    /\ Len(loads) < MaxLoads
    /\ \E limit \in Limits, stats_raise \in BOOLEAN :
          LET r == load_all_calls(storage, calls_cache, limit, Len(loads) + 1,
                                  stats_raise)
          IN  /\ stats_raise => /\ storage.variant = "colab"
                                /\ storage.kind = "rows"
                                /\ calls_cache.isNone
                                /\ StatisticsMayRaise(r.cache.val)
              /\ calls_cache' = r.cache
              /\ loads' = Append(loads, [limit |-> limit, out |-> r.out,
                                         read_storage |-> r.read_storage,
                                         store |-> storage])
    /\ UNCHANGED <<call, storage, conn, session>>

\* somebody adds, removes or repairs files between two calls
StorageChanges ==
    /\ Len(loads) < MaxLoads
    /\ \E s \in Storages : s.variant = storage.variant /\ s # storage /\ storage' = s
    /\ UNCHANGED <<call, calls_cache, conn, loads, session>>

\* one call of setup_in_memory_db (entry "setup_in_memory_db") or of get_cursor
\* on the loader
DbCall(entry, r) ==
    /\ conn' = r.conn
    /\ calls_cache' = r.cache
    /\ loads' = IF r.loaded
                THEN Append(loads, [limit |-> 0, out |-> r.loadout,
                                    read_storage |-> r.read_storage, store |-> storage])
                ELSE loads
    /\ call' = [op |-> entry, done |-> TRUE, out |-> r.out]
    /\ UNCHANGED <<storage, session>>

LoaderSetupInMemoryDb ==
    /\ conn.isNone => Len(loads) < MaxLoads
    /\ \E loaded \in LoadOutcomes(storage, calls_cache, 0, Len(loads) + 1) :
          \E r \in {setup_in_memory_db(conn, calls_cache, loaded)} :
             DbCall("setup_in_memory_db",
                    r @@ [loadout |-> loaded.out, read_storage |-> loaded.read_storage])

GetCursor ==
    /\ conn.isNone => Len(loads) < MaxLoads
    /\ \E loaded \in LoadOutcomes(storage, calls_cache, 0, Len(loads) + 1) :
          \E r \in {get_cursor(conn, calls_cache, loaded)} :
             DbCall("get_cursor",
                    r @@ [loadout |-> loaded.out, read_storage |-> loaded.read_storage])

LoaderInit ==
    /\ call = NoCall /\ SessionIdle
    /\ storage \in Storages /\ calls_cache = None /\ conn = None /\ loads = <<>>

LoaderNext == LoadAllCalls \/ StorageChanges \/ LoaderSetupInMemoryDb \/ GetCursor

SpecLoader == LoaderInit /\ [][LoaderNext]_vars

\* C7: of two successive load_all_calls() calls without a limit, the second
\* returns what the first returned, the same list with the same records, and
\* reads no storage, whatever the storage held at the first call.
C7_SecondLoadFromCache ==
    \A i \in 2..Len(loads) :
        (loads[i - 1].limit = 0 /\ loads[i].limit = 0)
        => (loads[i].out = loads[i - 1].out /\ ~loads[i].read_storage)

\* C22: every record of every list load_all_calls returns, of either
\* loader, has a call_date that is a date: no record carries the null date NaT,
\* a CSV row with an empty date cell included.
C22_CallDateNeverNull ==
    \A i \in 1..Len(loads) :
        loads[i].out.exc = "none" =>
            \A j \in 1..Len(loads[i].out.val.val) :
                loads[i].out.val.val[j].call_date # NaT

\* every record the storage holds that can be loaded, in the order of loading
Loadable(store) ==
    IF store.variant = "main" /\ store.kind = "dir"
    THEN JsonLoop(store.files, 0, 1, <<>>)
    ELSE IF store.variant = "colab" /\ store.kind = "rows"
    THEN CsvLoop(store.files, 0, 1, <<>>)
    ELSE <<>>

\* C25: a load_all_calls() call without a limit that follows other
\* load_all_calls calls, with or without a limit, on a storage that stayed the
\* same, returns every loadable record of the storage, never a prefix cut by the
\* limit of an earlier call.
C25_CacheHoldsWholeCollection ==
    \A k \in 2..Len(loads) :
        (/\ loads[k].limit = 0
         /\ loads[k].out.exc = "none"
         /\ \A i \in 1..k : loads[i].store = loads[k].store)
        => loads[k].out.val.val = Loadable(loads[k].store)

\* C26: in the loader of JSON files, when setup_in_memory_db or
\* get_cursor has returned, the calls table holds one row for each record of
\* the collection (the cache, or what the storage holds while nothing is
\* cached) and call_tags one row for each tag occurrence of each record, after
\* any sequence of such calls, one that follows a failed build included.
C26_IndexMirrorsCollection ==
    (/\ storage.variant = "main"
     /\ call.op \in {"setup_in_memory_db", "get_cursor"}
     /\ call.out.exc = "none")
    => conn = Tables(IF calls_cache.isNone THEN Loadable(storage) ELSE calls_cache.val)

(***************************************************************************)
(* DeepSeekAnalyzer.  The fallback answer is modelled as the list          *)
(* answer_parts before "\n".join, each part as the values its f-string     *)
(* shows; an answer is [text |-> the LLM's text] or [parts |-> the        *)
(* fallback's parts].                                                      *)
(***************************************************************************)
IsSpace(c) == c \in {" ", "\n", "\t"}

\* str.strip()
RECURSIVE Strip(_)
Strip(s) ==
    IF s = <<>> THEN s
    ELSE IF IsSpace(s[1]) THEN Strip(Tail(s))
    ELSE IF IsSpace(s[Len(s)]) THEN Strip(SubSeq(s, 1, Len(s) - 1))
    ELSE s

\* the for loop over results['count_by_tag'].items()
CountParts(counts) ==
    [i \in 1..Len(counts) |-> [part |-> "count", tag |-> counts[i].k,
                               count |-> counts[i].v]]

\* one pass of the loop over results['tag_trends'].items(): no part for an
\* empty trend; change is ((last - first) / first * 100) if first > 0 else 0,
\* kept as the fraction over first
TrendPart(tag, trends) ==
    IF trends = <<>> THEN <<>>
    ELSE LET first == trends[1].count
             last == trends[Len(trends)].count
             change == IF first > 0 THEN (last - first) * 100 ELSE 0
         IN  <<[part |-> "trend", tag |-> tag,
                trend_desc |-> IF change > 0 THEN "rise"
                               ELSE IF change < 0 THEN "fall" ELSE "flat",
                change |-> [num |-> IF change < 0 THEN -change ELSE change,
                            den |-> IF first > 0 THEN first ELSE 1]]>>

RECURSIVE TrendParts(_, _)
TrendParts(tag_trends_result, i) ==
    IF i > Len(tag_trends_result) THEN <<>>
    ELSE TrendPart(tag_trends_result[i].k, tag_trends_result[i].v)
         \o TrendParts(tag_trends_result, i + 1)

\* max(counts.items(), key=lambda x: x[1])[0]: the first key with the
\* greatest count
MaxTag(counts) ==
    counts[CHOOSE i \in 1..Len(counts) :
              /\ \A j \in 1..Len(counts) : counts[j].v <= counts[i].v
              /\ \A j \in 1..(i - 1) : counts[j].v < counts[i].v].k

\* the recommendation: main looks for 'жалоба' in max_tag, colab for 'жалоба'
\* or 'низкое'; max_tag is a target tag, a string
RecommendationParts(variant, counts) ==
    IF counts = <<>> THEN <<>>
    ELSE LET max_tag == MaxTag(counts)
         IN  IF max_tag.v # <<>>
                 /\ (Contains(KwComplaint, max_tag.v)
                     \/ (variant = "colab" /\ Contains(KwLow, max_tag.v)))
             THEN <<[part |-> "recommendation", tag |-> max_tag]>>
             ELSE <<>>

generate_fallback_answer(variant, results, plan) ==
    LET counts == DictGet(results, "count_by_tag", <<>>)
    IN  <<[part |-> "period", description |-> plan.time_period.description]>>
        \o (IF variant = "colab"
            THEN (IF DictHas(results, "count_by_tag") /\ counts # <<>>
                  THEN <<[part |-> "counts"]>> \o CountParts(counts)
                  ELSE <<[part |-> "no_data_for_tags"]>>)
            ELSE (IF DictHas(results, "count_by_tag")
                  THEN <<[part |-> "counts"]>> \o CountParts(counts)
                  ELSE <<>>))
        \o (IF DictHas(results, "tag_trends")
            THEN TrendParts(DictGet(results, "tag_trends", <<>>), 1)
            ELSE <<>>)
        \o (IF DictHas(results, "count_by_tag")
            THEN RecommendationParts(variant, counts)
            ELSE <<>>)

\* _build_analyzer_prompt, which runs before the try: ', '.join(target_tags)
\* raises on a tag that is no string, and src/analyzer.py formats
\* time_period's dates
build_analyzer_prompt(variant, results, plan) ==
    IF \E i \in 1..Len(plan.target_tags) : plan.target_tags[i].t # "str"
    THEN Raise("TypeError")
    ELSE Ok("prompt")

\* response['response'] for what client.generate did: kind "text" (a response
\* with the text llm.text), "raise" (the call raises: no server, a timeout),
\* "malformed" (a response without the key)
ResponseText(llm) ==
    CASE llm.kind = "text" -> Ok(llm.text)
      [] llm.kind = "raise" -> Raise("ConnectionError")
      [] OTHER -> Raise("KeyError")

\* main and colab catch Exception around the LLM call and answer from the
\* template; src/analyzer.py has no try and does not strip the text
generate_answer(variant, results, plan, llm) ==
    Bind(build_analyzer_prompt(variant, results, plan),
      LAMBDA prompt :
        LET text == ResponseText(llm)
        IN  IF prompt.exc # "none" THEN prompt
            ELSE IF variant = "legacy"
                 THEN (IF text.exc = "none" THEN Ok([text |-> text.val]) ELSE text)
            ELSE IF text.exc = "none" THEN Ok([text |-> Strip(text.val)])
            ELSE Ok([parts |-> generate_fallback_answer(variant, results, plan)]))

\* "import analyzer": the annotation Dict[str, Any] of generate_answer names
\* Any, which src/analyzer.py does not import; an interpreter that evaluates
\* annotations when the def runs raises NameError, one that defers them
\* (Python 3.14) does not
import_analyzer(variant, eager_annotations) ==
    IF variant = "legacy" /\ eager_annotations THEN Raise("NameError") ELSE Ok("module")

\* what the analyzer LLM does
AnalyzerLLMs ==
    {[kind |-> "text", text |-> <<" ", "o", "k", "\n">>], [kind |-> "raise"],
     [kind |-> "malformed"]}

\* the bundles execute_plan returns on the engine's inputs, each with its plan;
\* for src/analyzer.py a plan of its planner whose only metric is the sentiment
\* trend, for which src/query_executor.py returns the empty bundle
AnalyzerCalls ==
    {[op |-> "generate_answer", variant |-> c.variant, plan |-> c.plan,
      results |-> c.results.val, llm |-> llm, eager_annotations |-> FALSE,
      done |-> FALSE] :
        c \in {b \in {[variant |-> e.variant, plan |-> e.plan,
                        results |-> execute_plan(e.variant, e.all_calls, e.plan)] :
                          e \in ExecutorCalls} : b.results.exc = "none"},
        llm \in AnalyzerLLMs}
    \cup
    {[op |-> "generate_answer", variant |-> "legacy",
      plan |-> create_analysis_plan("legacy", <<"p","r","i","v","e","t">>, p,
                                    MkDate(2024, 3, 15)).val,
      results |-> <<>>, llm |-> llm, eager_annotations |-> eager, done |-> FALSE] :
        p \in {[kind |-> "json",
                data |-> PlanObject(GoodPeriod, JList(<<JStr(<<"D","o","l","g">>)>>),
                                    JList(<<JStr(StrSentiment)>>), g)] :
                  g \in {JMissing, JStr(StrWeek)}},
        llm \in AnalyzerLLMs, eager \in BOOLEAN}

GenerateAnswer ==
    /\ call.op = "generate_answer" /\ ~call.done
    /\ \E out \in {IF import_analyzer(call.variant, call.eager_annotations).exc # "none"
                    THEN import_analyzer(call.variant, call.eager_annotations)
                    ELSE generate_answer(call.variant, call.results, call.plan,
                                         call.llm)} :
          call' = Done(call, out)
    /\ UNCHANGED <<loaderVars, session>>

AnalyzerInit == call \in AnalyzerCalls /\ LoaderIdle /\ SessionIdle

AnalyzerNext == GenerateAnswer

SpecAnalyzer == AnalyzerInit /\ [][AnalyzerNext]_vars

\* C9: when the analyzer LLM call raises or its response is malformed,
\* generate_answer of every analyzer raises nothing and returns the answer
\* _generate_fallback_answer builds from the results and the plan.
C9_FallbackOnAnalyzerFailure ==
    (call.op = "generate_answer" /\ call.done /\ call.llm.kind \in {"raise", "malformed"})
    => /\ call.out.exc = "none"
       /\ call.out.val = [parts |-> generate_fallback_answer(call.variant, call.results,
                                                              call.plan)]

(***************************************************************************)
(* enhanced_interactive_mode: the loop "while True: try: ... except        *)
(* KeyboardInterrupt: break; except Exception: ...".                       *)
(***************************************************************************)
\* the number of inputs a session reads
MaxInputs == 3

\* query_history[-20:]
HistoryCap == 20

\* what the user types: '/exit', 'EXIT ', 'q', '/?', '/статистика',
\* '/история', '/сохранить x', '/тест', '  ', 'привет'
CmdExit == <<"/", "e", "x", "i", "t">>
CmdExitUpper == <<"E", "X", "I", "T", " ">>
CmdQ == <<"q">>
CmdHelp == <<"/", "?">>
CmdStats == <<"/","s","t","a","t","i","s","t","i","k","a">>
CmdHistory == <<"/","i","s","t","o","r","i","ya">>
CmdSave == <<"/","s","o","h","r","a","n","i","t","ss">>
CmdTest == <<"/","t","e","s","t">>

UserInputs ==
    {CmdExit, CmdExitUpper, CmdQ, CmdHelp, CmdStats, CmdHistory,
     CmdSave \o <<" ", "x">>, CmdTest, <<" ", " ">>, <<"p","r","i","v","e","t">>}

\* str.lower() with the Latin letters of the commands that LowerChar lacks
LowerLatin(c) ==
    CASE c = "X" -> "x"
      [] c = "Q" -> "q"
      [] OTHER -> LowerChar(c)

LowerInput(s) == [i \in 1..Len(s) |-> LowerLatin(s[i])]

StartsWith(s, prefix) ==
    Len(s) >= Len(prefix) /\ SubSeq(s, 1, Len(prefix)) = prefix

\* the branch of the if/elif chain an input takes after strip() and lower()
Branch(variant, user_input) ==
    LET u == LowerInput(Strip(user_input))
    IN  IF u = CmdExit \/ u = Tail(CmdExit) \/ (variant = "colab" /\ u = CmdQ)
        THEN "exit"
        ELSE IF u = CmdHelp THEN "help"
        ELSE IF u = CmdStats THEN "stats"
        ELSE IF u = CmdHistory THEN "history"
        ELSE IF StartsWith(u, CmdSave) THEN "save"
        ELSE IF u = CmdTest THEN "test"
        ELSE IF u = <<>> THEN "empty"
        ELSE "query"

\* JSONCallAnalyticsMCP.process_query: plan, execute, answer.  The colab loop
\* calls process_query(user_input, query_history), one argument more than the
\* method takes
process_query(variant, nargs, user_query, all_calls, env) ==
    IF nargs # 1 THEN Raise("TypeError")
    ELSE Bind(create_analysis_plan(variant, user_query, env.planner_llm, env.today),
           LAMBDA plan :
             IF plan.exc # "none" THEN plan
             ELSE Bind(execute_plan(variant, all_calls, plan.val),
                    LAMBDA results :
                      IF results.exc # "none" THEN results
                      ELSE Bind(generate_answer(variant, results.val, plan.val,
                                                env.analyzer_llm),
                             LAMBDA answer :
                               IF answer.exc # "none" THEN answer
                               ELSE Ok([query |-> user_query, answer |-> answer.val,
                                        total_calls_analyzed |->
                                            DictGet(results.val, "summary_stats",
                                                    [total_calls |-> 0]).total_calls]))))

\* query_history.append({... 'status': 'processing'}) and the cut to the
\* last 20 entries
AppendQuery(query_history, user_input) ==
    LET h == Append(query_history, [query |-> user_input, status |-> "processing"])
    IN  IF Len(h) > HistoryCap THEN SubSeq(h, Len(h) - HistoryCap + 1, Len(h)) ELSE h

\* query_history[-1]['status'] = status
SetLastStatus(query_history, status) ==
    [query_history EXCEPT ![Len(query_history)].status = status]

\* the body of the try for one input: the history after it and how it ended:
\* "break", "next" (continue or the end of the body) or the exception raised.
\* env.helper_fails says whether the helper of a command raises (/сохранить
\* cannot write its file, /статистика cannot read the data);
\* env.interrupted whether Ctrl-C arrives while the query is processed
try_body(variant, all_calls, query_history, user_input, env) ==
    LET branch == Branch(variant, user_input)
    IN  CASE branch = "exit" -> [query_history |-> query_history, end |-> "break"]
          [] branch \in {"help", "history", "test", "empty"} ->
                [query_history |-> query_history, end |-> "next"]
          [] branch \in {"stats", "save"} ->
                [query_history |-> query_history,
                 end |-> IF env.helper_fails THEN "OSError" ELSE "next"]
          [] OTHER ->
                LET stripped == Strip(user_input)
                    h == AppendQuery(query_history, stripped)
                IN  IF env.interrupted
                    THEN [query_history |-> h, end |-> "KeyboardInterrupt"]
                    ELSE Bind(process_query(variant, IF variant = "colab" THEN 2 ELSE 1,
                                            stripped, all_calls, env),
                           LAMBDA result :
                             IF result.exc # "none"
                             THEN [query_history |-> h, end |-> result.exc]
                             ELSE [query_history |-> SetLastStatus(h, "completed"),
                                   end |-> "next"])

\* the loop without "except Exception": the exception leaves the function
except_clauses_without_exception(query_history, end) ==
    CASE end = "break" -> [query_history |-> query_history, pc |-> "ended", how |-> "exit"]
      [] end = "KeyboardInterrupt" ->
            [query_history |-> query_history, pc |-> "ended", how |-> "KeyboardInterrupt"]
      [] end = "next" -> [query_history |-> query_history, pc |-> "input", how |-> "none"]
      [] OTHER -> [query_history |-> query_history, pc |-> "ended", how |-> end]

\* what follows the body: break and KeyboardInterrupt leave the loop, any
\* Exception marks the last history entry, if there is one, and the loop goes
\* on
except_clauses(query_history, end) ==
    CASE end = "break" -> [query_history |-> query_history, pc |-> "ended", how |-> "exit"]
      [] end = "KeyboardInterrupt" ->
            [query_history |-> query_history, pc |-> "ended", how |-> "KeyboardInterrupt"]
      [] end = "next" -> [query_history |-> query_history, pc |-> "input", how |-> "none"]
      [] OTHER ->
            [query_history |-> IF query_history # <<>>
                               THEN SetLastStatus(query_history, "error")
                               ELSE query_history,
             pc |-> "input", how |-> "none"]

\* the planner's and the analyzer's LLM, the clock, the helpers, Ctrl-C
SessionEnvs ==
    {[planner_llm |-> p, analyzer_llm |-> a, today |-> MkDate(2024, 3, 15),
      helper_fails |-> f, interrupted |-> i] :
        p \in {[kind |-> "badjson"],
               [kind |-> "json",
                data |-> PlanObject(GoodPeriod, JList(<<JStr(<<"D","o","l","g">>)>>),
                                    JList(<<JStr(StrComparison)>>), JMissing)]},
        a \in {[kind |-> "text", text |-> <<"o", "k">>], [kind |-> "raise"]},
        f \in BOOLEAN, i \in BOOLEAN}

\* the collection the system loaded when it was constructed
SessionCalls ==
    {<<>>, Numbered(<<[call_date |-> MkDate(2024, 1, 1), tags |-> <<DebtTag>>],
                      [call_date |-> MkDate(2024, 3, 1),
                       tags |-> <<<<"x", "y", "z">>, DebtTag>>]>>)}

\* one pass of the loop that reads an input
HandleInput ==
    /\ session.pc = "input" /\ session.n < MaxInputs
    /\ \E user_input \in UserInputs, env \in SessionEnvs :
          \E body \in {try_body(session.variant, session.calls, session.query_history,
                                user_input, env)} :
             \E after \in {except_clauses(body.query_history, body.end)} :
                session' = [session EXCEPT !.pc = after.pc, !.how = after.how,
                                           !.query_history = after.query_history,
                                           !.last_end = body.end, !.n = @ + 1]
    /\ UNCHANGED <<call, loaderVars>>

\* Ctrl-C while input() waits
InterruptAtPrompt ==
    /\ session.pc = "input"
    /\ LET after == except_clauses(session.query_history, "KeyboardInterrupt")
       IN  session' = [session EXCEPT !.pc = after.pc, !.how = after.how,
                                      !.last_end = "KeyboardInterrupt"]
    /\ UNCHANGED <<call, loaderVars>>

SessionInit ==
    /\ call = NoCall /\ LoaderIdle
    /\ session \in {[variant |-> v, calls |-> c, pc |-> "input", how |-> "none",
                     query_history |-> <<>>, last_end |-> "none", n |-> 0] :
                       v \in {"main", "colab"}, c \in SessionCalls}

SessionNext == HandleInput \/ InterruptAtPrompt

SpecSession == SessionInit /\ [][SessionNext]_vars

\* C10: an exception raised while an input is handled never ends the loop,
\* which then reads the next input; the loop ends only by an exit command or
\* by KeyboardInterrupt.
C10_OnlyExitOrInterruptEnds ==
    /\ session.pc = "ended" => session.how \in {"exit", "KeyboardInterrupt"}
    /\ session.last_end \notin {"none", "next", "break", "KeyboardInterrupt"}
           => session.pc = "input"

\* the second query of a session has just raised AttributeError in the engine:
\* its entry is marked, the first query's entry stays completed, and the loop
\* is back at the prompt
C10_Witness ==
    /\ session.pc = "input"
    /\ session.n = 2
    /\ session.last_end = "AttributeError"
    /\ Len(session.query_history) = 2
    /\ session.query_history[1].status = "completed"
    /\ session.query_history[2].status = "error"

\* C27: a history entry with status 'completed' keeps that status through
\* every later pass of the loop, whatever the pass raises.
C27_CompletedStaysCompleted ==
    [][\A i \in 1..Len(session.query_history) :
          session.query_history[i].status = "completed"
          => /\ i <= Len(session.query_history')
             /\ session.query_history'[i].status = "completed"]_vars

\* C28: in the Colab loop the call of process_query matches the method's
\* signature: no pass of the loop ends with the TypeError of a call with the
\* wrong number of arguments, which would leave the query's entry in status
\* 'error' with no answer shown.
C28_ColabQueryCompletes ==
    session.variant = "colab" => session.last_end # "TypeError"
(***************************************************************************)
(* JSONCallAnalyticsMCP: the constructed system, its loader's cache and    *)
(* the operations on it.  process_query runs in three steps (plan,         *)
(* execute, answer); call.events lists what the running query has done.    *)
(***************************************************************************)
\* the number of operations in a run
MaxOps == 2

\* load_all_calls(limit=10) in test_system
TestLimit == 10

\* 'Тестовый запрос: жалобы на качество'
TestQuery == <<"T","e","s","t","o","v","y","j"," ","z","a","p","r","o","s",":"," ","zh","a","l","o","b","y"," ","n","a"," ","k","a","ch","e","s","t","v","o">>

\* a directory with one record more than test_system asks for
ManyRecords ==
    [i \in 1..(TestLimit + 1) |->
        [json |-> TRUE, ok |-> TRUE, call_date |-> MkDate(2024, 1, i),
         tags |-> <<DebtTag>>]]

SystemStorages ==
    {[variant |-> "main", kind |-> "dir", files |-> <<>>],
     [variant |-> "main", kind |-> "dir", files |-> JsonFiles],
     [variant |-> "main", kind |-> "dir", files |-> ManyRecords],
     [variant |-> "colab", kind |-> "missing", files |-> <<>>],
     [variant |-> "colab", kind |-> "rows",
      files |-> <<[call_date |-> MkDate(2024, 1, 1), tags |-> <<DebtTag>>],
                  [call_date |-> MkDate(2024, 5, 1),
                   tags |-> <<<<"x", "y", "z">>, DebtTag>>]>>],
     [variant |-> "colab", kind |-> "rows",
      files |-> [i \in 1..(TestLimit + 1) |->
                    [call_date |-> ManyRecords[i].call_date,
                     tags |-> ManyRecords[i].tags]]]}

\* the planner's and the analyzer's LLM and the clock
SystemEnvs ==
    {[planner_llm |-> p, analyzer_llm |-> a, today |-> MkDate(2024, 3, 15)] :
        p \in {[kind |-> "badjson"],
               [kind |-> "json",
                data |-> PlanObject(GoodPeriod, JList(<<JStr(<<"D","o","l","g">>)>>),
                                    JList(<<JStr(StrComparison)>>), JMissing)]},
        a \in {[kind |-> "text", text |-> <<"o", "k">>], [kind |-> "raise"]}}

\* JSONQueryExecutor.execute_plan with its loader: "all_calls =
\* self.data_loader.load_all_calls()", then the metrics over that list.
\* loaded is the outcome of that load_all_calls()
executor_execute_plan(variant, loaded, plan) ==
    [cache |-> loaded.cache,
     out |-> IF loaded.out.exc # "none" THEN loaded.out
             ELSE execute_plan(variant, loaded.out.val.val, plan)]

\* min(dates) and max(dates): the first element no later one is less (greater)
\* than
RECURSIVE MinDate(_, _, _)
MinDate(calls, i, best) ==
    IF i > Len(calls) THEN best
    ELSE MinDate(calls, i + 1,
                 IF calls[i].call_date # NaT /\ best # NaT /\ calls[i].call_date < best
                 THEN calls[i].call_date ELSE best)

RECURSIVE MaxDate(_, _, _)
MaxDate(calls, i, best) ==
    IF i > Len(calls) THEN best
    ELSE MaxDate(calls, i + 1,
                 IF calls[i].call_date # NaT /\ best # NaT /\ calls[i].call_date > best
                 THEN calls[i].call_date ELSE best)

\* get_system_info: the counts and the date range of load_all_calls()
get_system_info(loaded) ==
    [cache |-> loaded.cache,
     out |-> IF loaded.out.exc # "none" THEN loaded.out
             ELSE LET calls == loaded.out.val.val
                  IN  Ok([total_calls |-> Len(calls),
                          unique_tags_count |->
                              Cardinality({o.tag : o \in Range(TagOccurrences(calls))}),
                          date_range |->
                              IF calls = <<>> THEN None
                              ELSE [isNone |-> FALSE,
                                    start |-> MinDate(calls, 2, calls[1].call_date),
                                    end |-> MaxDate(calls, 2, calls[1].call_date)]])]

\* "len(answer) < 10" in test_system
MinAnswerLen == 10

\* len(answer) of what generate_answer returned; the template's first part
\* alone is longer than 10 characters
AnswerLen(answer) ==
    IF "text" \in DOMAIN answer THEN Len(answer.text)
    ELSE MinAnswerLen + Len(answer.parts)

\* JSONCallAnalyticsMCP.test_system: the four tests inside try/except; first is
\* the outcome of load_all_calls(limit=10), second of the load_all_calls() that
\* execute_plan makes after it
test_system(variant, first, second, env) ==
    IF first.out.exc # "none" THEN [cache |-> first.cache, out |-> Ok(FALSE)]
    ELSE IF first.out.val.val = <<>> THEN [cache |-> first.cache, out |-> Ok(FALSE)]
    ELSE Bind(create_analysis_plan(variant, TestQuery, env.planner_llm, env.today),
           LAMBDA plan :
             IF plan.exc # "none" \/ plan.val.target_tags = <<>>
             THEN [cache |-> first.cache, out |-> Ok(FALSE)]
             ELSE Bind(executor_execute_plan(variant, second, plan.val),
                    LAMBDA results :
                      IF results.out.exc # "none"
                      THEN [cache |-> results.cache, out |-> Ok(FALSE)]
                      ELSE IF ~DictHas(results.out.val, "summary_stats")
                      THEN [cache |-> results.cache, out |-> Ok(FALSE)]
                      ELSE Bind(generate_answer(variant, results.out.val, plan.val,
                                                env.analyzer_llm),
                             LAMBDA answer :
                               [cache |-> results.cache,
                                out |-> Ok(answer.exc = "none"
                                           /\ AnswerLen(answer.val) >= MinAnswerLen)])))

\* the events of create_analysis_plan: the prompt is built, client.generate is
\* called once inside the try, and the method returns (or, without the try of
\* src/llm_query_planner.py, raises)
PlannerEvents(plan) ==
    <<"plan:call", "llm:planner",
      IF plan.exc = "none" THEN "plan:return" ELSE "plan:raise">>

\* the events of execute_plan: no client is reachable from the executor
ExecutorEvents(results) ==
    <<"execute:call", IF results.exc = "none" THEN "execute:return" ELSE "execute:raise">>

\* generate_answer with a second client.generate after a failed one
AnalyzerEvents_with_retry(variant, results, plan, llm, answer) ==
    <<"answer:call">>
    \o (IF build_analyzer_prompt(variant, results, plan).exc = "none"
        THEN (IF ResponseText(llm).exc = "none" THEN <<"llm:analyzer">>
              ELSE <<"llm:analyzer", "llm:analyzer">>)
        ELSE <<>>)
    \o <<IF answer.exc = "none" THEN "answer:return" ELSE "answer:raise">>

\* the events of generate_answer: the prompt is built before the try, then
\* client.generate is called once
AnalyzerEvents(variant, results, plan, llm, answer) ==
    <<"answer:call">>
    \o (IF build_analyzer_prompt(variant, results, plan).exc = "none"
        THEN <<"llm:analyzer">> ELSE <<>>)
    \o <<IF answer.exc = "none" THEN "answer:return" ELSE "answer:raise">>

\* the system at rest after an operation
Idle(c, op, out) ==
    [variant |-> c.variant, n |-> c.n + 1, pc |-> "idle",
     op |-> op, out |-> out, events |-> c.events, done |-> TRUE]

\* process_query, step 1: self.planner.create_analysis_plan(user_query)
PlanStep ==
    /\ call.op # "none" /\ call.pc = "idle" /\ call.n < MaxOps
    /\ \E env \in SystemEnvs :
          \E plan \in {create_analysis_plan(call.variant, <<"p","r","i","v","e","t">>,
                                            env.planner_llm, env.today)} :
             call' = IF plan.exc # "none"
                     THEN [Idle(call, "process_query", plan)
                              EXCEPT !.events = PlannerEvents(plan)]
                     ELSE [variant |-> call.variant, n |-> call.n,
                           pc |-> "execute", op |-> "process_query", out |-> plan,
                           events |-> PlannerEvents(plan), done |-> FALSE,
                           env |-> env]
    /\ UNCHANGED <<loaderVars, session>>

\* process_query, step 2: self.executor.execute_plan(analysis_plan)
ExecuteStep ==
    /\ call.op = "process_query" /\ call.pc = "execute"
    /\ \E loaded \in LoadOutcomes(storage, calls_cache, 0, call.n + 1) :
          \E r \in {executor_execute_plan(call.variant, loaded, call.out.val)} :
             /\ calls_cache' = r.cache
             /\ call' = IF r.out.exc # "none"
                        THEN [Idle(call, "process_query", r.out)
                                 EXCEPT !.events = call.events \o ExecutorEvents(r.out)]
                        ELSE [call EXCEPT !.pc = "answer",
                                          !.events = @ \o ExecutorEvents(r.out)]
                             @@ [plan |-> call.out.val, results |-> r.out.val]
    /\ UNCHANGED <<storage, conn, loads, session>>

\* process_query, step 3: self.analyzer.generate_answer(...) and the response
AnswerStep ==
    /\ call.op = "process_query" /\ call.pc = "answer"
    /\ \E answer \in {generate_answer(call.variant, call.results, call.plan,
                                      call.env.analyzer_llm)} :
          call' = [Idle(call, "process_query", answer)
                      EXCEPT !.events = call.events
                                 \o AnalyzerEvents(call.variant, call.results, call.plan,
                                                   call.env.analyzer_llm, answer)]
    /\ UNCHANGED <<loaderVars, session>>

GetSystemInfo ==
    /\ call.op # "none" /\ call.pc = "idle" /\ call.n < MaxOps
    /\ \E loaded \in LoadOutcomes(storage, calls_cache, 0, call.n + 1) :
          \E r \in {get_system_info(loaded)} :
             /\ calls_cache' = r.cache
             /\ call' = Idle(call, "get_system_info", r.out)
    /\ UNCHANGED <<storage, conn, loads, session>>

TestSystem ==
    /\ call.op # "none" /\ call.pc = "idle" /\ call.n < MaxOps
    /\ \E env \in SystemEnvs :
          \E first \in LoadOutcomes(storage, calls_cache, TestLimit, call.n + 1) :
             \E second \in LoadOutcomes(storage, first.cache, 0, call.n + 1) :
                \E r \in {test_system(call.variant, first, second, env)} :
                   /\ calls_cache' = r.cache
                   /\ call' = Idle(call, "test_system", r.out)
    /\ UNCHANGED <<storage, conn, loads, session>>

\* data_loader.setup_in_memory_db(): returns the connection it has, or
\* connects and copies load_all_calls() into the tables
SetupInMemoryDb ==
    /\ call.op # "none" /\ call.pc = "idle" /\ call.n < MaxOps
    /\ \E loaded \in LoadOutcomes(storage, calls_cache, 0, call.n + 1) :
          \E r \in {setup_in_memory_db(conn, calls_cache, loaded)} :
             /\ conn' = r.conn
             /\ calls_cache' = r.cache
             /\ call' = Idle(call, "setup_in_memory_db", r.out)
    /\ UNCHANGED <<storage, loads, session>>

\* somebody adds or removes files while the system is at rest
SystemStorageChanges ==
    /\ call.op # "none" /\ call.pc = "idle" /\ call.n < MaxOps
    /\ \E s \in SystemStorages :
          s.variant = storage.variant /\ s # storage /\ storage' = s
    /\ UNCHANGED <<call, calls_cache, conn, loads, session>>

\* JSONCallAnalyticsMCP.__init__ has returned: it made the loader and called
\* load_all_calls()
SystemInit ==
    /\ SessionIdle /\ loads = <<>> /\ conn = None
    /\ storage \in SystemStorages
    /\ \E loaded \in LoadOutcomes(storage, None, 0, 0) :
          /\ loaded.out.exc = "none"
          /\ calls_cache = loaded.cache
    /\ call = [variant |-> storage.variant, n |-> 0, pc |-> "idle",
               op |-> "init", out |-> Ok("system"), events |-> <<>>, done |-> TRUE]

SystemNext ==
    \/ PlanStep
    \/ ExecuteStep
    \/ AnswerStep
    \/ GetSystemInfo
    \/ TestSystem
    \/ SetupInMemoryDb
    \/ SystemStorageChanges

SpecSystem == SystemInit /\ [][SystemNext]_vars

\* C11: once calls_cache holds a collection, no step of process_query,
\* get_system_info, test_system or setup_in_memory_db changes it: it stays the
\* same list with the same records in the same order, whether the operation
\* succeeds or fails and whatever happens to the files meanwhile.
C11_CacheUnchangedAfterLoad ==
    [][(~calls_cache.isNone) => calls_cache' = calls_cache]_vars

\* process_query has just failed in the engine on a cache of two records
C11_Witness ==
    /\ call.op = "process_query" /\ call.pc = "idle"
    /\ call.out.exc = "AttributeError"
    /\ ~calls_cache.isNone
    /\ Len(calls_cache.val) = 2
    /\ storage.files # JsonFiles

\* the calls of the external LLM among the events, in their order
LLMEvents(events) ==
    SelectSeq(events, LAMBDA e : e \in {"llm:planner", "llm:analyzer"})

\* event i happens while execute_plan runs
DuringExecution(events, i) ==
    \E j \in 1..(i - 1) :
        /\ events[j] = "execute:call"
        /\ \A k \in (j + 1)..(i - 1) : events[k] \notin {"execute:return", "execute:raise"}

\* C18: a process_query call invokes the LLM at most twice, the planner's
\* call first and the analyzer's second; the analyzer's call comes after
\* create_analysis_plan and execute_plan have returned, and no LLM call
\* happens while execute_plan runs.
C18_TwoSequentialLLMCalls ==
    call.op = "process_query" =>
        /\ LLMEvents(call.events)
               \in {<<>>, <<"llm:planner">>, <<"llm:planner", "llm:analyzer">>}
        /\ \A i \in 1..Len(call.events) :
              /\ call.events[i] = "llm:analyzer"
                    => /\ \E j \in 1..(i - 1) : call.events[j] = "plan:return"
                       /\ \E j \in 1..(i - 1) : call.events[j] = "execute:return"
              /\ call.events[i] \in {"llm:planner", "llm:analyzer"}
                    => ~DuringExecution(call.events, i)

\* a query whose analyzer call failed has ended with the template answer
\* after one call of each LLM
C18_Witness ==
    /\ call.op = "process_query" /\ call.pc = "idle"
    /\ call.out.exc = "none"
    /\ "parts" \in DOMAIN call.out.val
    /\ call.events = <<"plan:call", "llm:planner", "plan:return",
                       "execute:call", "execute:return",
                       "answer:call", "llm:analyzer", "answer:return">>
(***************************************************************************)
(* The metric functions of JSONQueryExecutor, each called on its own with  *)
(* a collection and its arguments.                                         *)
(***************************************************************************)
\* the longest collection a metric function is called on
MaxMetricCalls == 3

\* 'долго_нет_ответа'
LongTag == ScenarioTag

\* 'Долг', which both 'долго_нет_ответа' and 'погашение_долга' contain
ShortTag == <<"D","o","l","g">>

\* the records the collections are made of: the three of 2024-01-05,
\* 2024-02-10 and 2024-02-20, records with two tags in either order, one of
\* them of the last week of 2023, and a record whose tag matches nothing
MetricPool ==
    {[call_date |-> MkDate(2024, 1, 5), tags |-> <<LongTag>>],
     [call_date |-> MkDate(2024, 2, 10), tags |-> <<LongTag>>],
     [call_date |-> MkDate(2024, 2, 20), tags |-> <<DebtTag>>],
     [call_date |-> MkDate(2024, 1, 5), tags |-> <<DebtTag, LongTag>>],
     [call_date |-> MkDate(2023, 12, 31), tags |-> <<LongTag, DebtTag>>],
     [call_date |-> MkDate(2024, 2, 10), tags |-> <<<<"x", "y", "z">>>>]}

MetricCallLists == {Numbered(rows) : rows \in SeqsUpTo(MetricPool, MaxMetricCalls)}

\* the tags handed to _compare_tags: none, one, two, and two of which the
\* first matches what the second matches
ComparedTags ==
    {<<>>, <<JStr(LongTag)>>, <<JStr(LongTag), JStr(DebtTag)>>,
     <<JStr(DebtTag), JStr(LongTag)>>, <<JStr(ShortTag), JStr(DebtTag)>>}

TrendTargets == {<<>>, <<JStr(LongTag)>>, <<JStr(ShortTag), JStr(DebtTag)>>,
                 <<JStr(DebtTag), JStr(LongTag)>>}

TrendGroupings == {JStr(StrDay), JStr(StrWeek), JStr(StrMonth)}

\* n of _top_n_tags: fewer than the distinct tags, as many, and the 5 of
\* execute_plan
TopNs == {1, 2, 3, 5}

\* the records _count_by_tag is called on: one tag, the same tag twice, two
\* different tags that both match a target, a tag that matches nothing
CountPool ==
    {[call_date |-> MkDate(2024, 1, 5), tags |-> <<DebtTag>>],
     [call_date |-> MkDate(2024, 1, 5), tags |-> <<DebtTag, DebtTag>>],
     [call_date |-> MkDate(2024, 2, 10), tags |-> <<LongTag, DebtTag>>],
     [call_date |-> MkDate(2024, 2, 10), tags |-> <<<<"x", "y", "z">>>>]}

CountCallLists == {Numbered(rows) : rows \in SeqsUpTo(CountPool, MaxMetricCalls)}

\* the targets of _count_by_tag: 'Долг' matches every tag of the two that
\* follow it
CountTargets ==
    {<<>>, <<JStr(DebtTag)>>, <<JStr(ShortTag), JStr(DebtTag)>>,
     <<JStr(DebtTag), JStr(ShortTag)>>, <<JStr(LongTag), JStr(DebtTag)>>}

MetricCalls ==
    {[op |-> "compare_tags", calls |-> calls, tags |-> tags, done |-> FALSE] :
        calls \in MetricCallLists, tags \in ComparedTags}
    \cup
    {[op |-> "tag_trends", variant |-> variant, calls |-> calls, target_tags |-> tags,
      grouping |-> grouping, done |-> FALSE] :
        variant \in {"main", "colab"}, calls \in MetricCallLists, tags \in TrendTargets,
        grouping \in TrendGroupings}
    \cup
    {[op |-> "top_n_tags", calls |-> calls, n |-> n, done |-> FALSE] :
        calls \in MetricCallLists, n \in TopNs}
    \cup
    {[op |-> "count_by_tag", calls |-> calls, target_tags |-> tags, done |-> FALSE] :
        calls \in CountCallLists, tags \in CountTargets}

CountByTag ==
    /\ call.op = "count_by_tag" /\ ~call.done
    /\ call' = Done(call, count_by_tag(call.calls, call.target_tags))
    /\ UNCHANGED <<loaderVars, session>>

CompareTags ==
    /\ call.op = "compare_tags" /\ ~call.done
    /\ call' = Done(call, compare_tags(call.calls, call.tags))
    /\ UNCHANGED <<loaderVars, session>>

TagTrends ==
    /\ call.op = "tag_trends" /\ ~call.done
    /\ call' = Done(call, tag_trends(call.variant, call.calls, call.target_tags,
                                     call.grouping))
    /\ UNCHANGED <<loaderVars, session>>

TopNTags ==
    /\ call.op = "top_n_tags" /\ ~call.done
    /\ call' = Done(call, Ok(top_n_tags(call.calls, call.n)))
    /\ UNCHANGED <<loaderVars, session>>

MetricsInit == call \in MetricCalls /\ LoaderIdle /\ SessionIdle

MetricsNext == CompareTags \/ TagTrends \/ TopNTags \/ CountByTag

SpecMetrics == MetricsInit /\ [][MetricsNext]_vars

(***************************************************************************)
(* Properties of the metric functions.                                     *)
(***************************************************************************)
CompareReturned == call.op = "compare_tags" /\ call.done /\ call.out.exc = "none"

\* C12: _compare_tags never raises ZeroDivisionError, and the record it
\* returns has ratio 0 when the count of the second tag is 0 and otherwise
\* the count of the first tag divided by the count of the second.
C12_RatioGuarded ==
    /\ (call.op = "compare_tags" /\ call.done) => call.out.exc # "ZeroDivisionError"
    /\ CompareReturned =>
          LET r == call.out.val
          IN  IF r.tag2.count = 0 THEN r.ratio.num = 0
              ELSE r.ratio.num * r.tag2.count = r.tag1.count * r.ratio.den

\* both cases: a comparison with counts 2 and 1 and another with a second tag
\* no call carries
C12_Witness ==
    /\ CompareReturned
    /\ \/ /\ call.out.val.tag1.count = 2
          /\ call.out.val.tag2.count = 1
          /\ call.out.val.ratio = [num |-> 2, den |-> 1]
       \/ /\ call.out.val.tag1.count = 1
          /\ call.out.val.tag2.count = 0
          /\ call.out.val.ratio = [num |-> 0, den |-> 1]
          /\ call.tags = <<JStr(LongTag), JStr(DebtTag)>>

\* C13: _compare_tags given fewer than two tags raises nothing and
\* returns the comparison record whose missing slot is the null tag with count
\* 0, whatever tags the calls carry.
C13_PaddedComparisonReturns ==
    (call.op = "compare_tags" /\ call.done /\ Len(call.tags) < 2)
    => /\ call.out.exc = "none"
       /\ call.out.val.tag2 = [name |-> JNull, count |-> 0]

TrendsReturned == call.op = "tag_trends" /\ call.done /\ call.out.exc = "none"

\* C14: in what _tag_trends returns, the list of every tag has its
\* period keys in strictly ascending order and no entry whose count is 0.
C14_TrendsSortedNoZero ==
    TrendsReturned =>
        \A i \in 1..Len(call.out.val) :
            LET series == call.out.val[i].v
            IN  /\ \A j \in 1..Len(series) : series[j].count > 0
                /\ \A j \in 1..(Len(series) - 1) :
                      StrLess(series[j].period, series[j + 1].period)

\* the calls came latest first and the weeks of the list are in order, the
\* last week of 2023 before the weeks of 2024
C14_Witness ==
    /\ TrendsReturned
    /\ call.grouping = JStr(StrWeek)
    /\ Len(call.calls) = 3
    /\ call.calls[1].call_date > call.calls[2].call_date
    /\ call.calls[2].call_date > call.calls[3].call_date
    /\ Len(call.out.val) = 1
    /\ Len(call.out.val[1].v) = 3
    /\ call.out.val[1].v[1] = [period |-> FormatWeek(MkDate(2023, 12, 31)), count |-> 1]

TopReturned == call.op = "top_n_tags" /\ call.done /\ call.out.exc = "none"

\* the place of the first occurrence of a tag in the order the calls and
\* their tags are read
FirstSeen(occ, tag) == CHOOSE i \in 1..Len(occ) :
                          occ[i].tag = tag /\ \A j \in 1..(i - 1) : occ[j].tag # tag

\* how many times exactly this string occurs
Occurrences(occ, tag) == Cardinality({i \in 1..Len(occ) : occ[i].tag = tag})

\* C17: _top_n_tags(calls, n) returns min(n, number of distinct tag
\* strings) entries, each a distinct tag with the number of its literal
\* occurrences, in non-increasing order of count and, among equal counts, in the
\* order the tags were first met; a tag left out has no more occurrences than
\* the last entry and, with as many, was first met later.
C17_TopNStableOrder ==
    TopReturned =>
        LET occ == TagOccurrences(call.calls)
            distinct == {occ[i].tag : i \in 1..Len(occ)}
            top == call.out.val
            Before(a, b) ==
                \/ Occurrences(occ, a) > Occurrences(occ, b)
                \/ /\ Occurrences(occ, a) = Occurrences(occ, b)
                   /\ FirstSeen(occ, a) < FirstSeen(occ, b)
        IN  /\ Len(top) = IF call.n < Cardinality(distinct) THEN call.n
                          ELSE Cardinality(distinct)
            /\ \A i \in 1..Len(top) :
                  /\ top[i].tag \in distinct
                  /\ top[i].count = Occurrences(occ, top[i].tag)
            /\ \A i \in 1..(Len(top) - 1) : Before(top[i].tag, top[i + 1].tag)
            /\ \A t \in distinct \ {top[i].tag : i \in 1..Len(top)} :
                  \A i \in 1..Len(top) : Before(top[i].tag, t)

\* two tags with three occurrences each and n = 1: the tag met first is the
\* one returned
C17_Witness ==
    /\ TopReturned
    /\ call.n = 1
    /\ Len(call.calls) = 3
    /\ call.calls[1].tags = <<LongTag, DebtTag>>
    /\ call.calls[2].tags = <<DebtTag, LongTag>>
    /\ call.calls[3].tags = <<DebtTag, LongTag>>
    /\ call.out.val = <<[tag |-> LongTag, count |-> 3]>>

CountReturned == call.op = "count_by_tag" /\ call.done /\ call.out.exc = "none"

\* target number j matches the tag and no target before it does
IsFirstMatch(target_tags, j, tag) ==
    /\ FuzzyMatch(target_tags[j].v, tag)
    /\ \A k \in 1..(j - 1) : ~FuzzyMatch(target_tags[k].v, tag)

\* the tag occurrences whose first matching target is this one
CountedFor(occ, target_tags, target) ==
    {i \in 1..Len(occ) :
        \E j \in 1..Len(target_tags) :
            target_tags[j] = target /\ IsFirstMatch(target_tags, j, occ[i].tag)}

RECURSIVE SumCounts(_)
SumCounts(counts) ==
    IF counts = <<>> THEN 0 ELSE counts[1].v + SumCounts(Tail(counts))

\* C23: the counter _count_by_tag returns for a target is the number of
\* tag occurrences of the calls whose first matching target, in the order of
\* the target list, is that target, a target with no such occurrence having no
\* counter; so the counters add up to no more than the number of tag
\* occurrences.
C23_FirstMatchWins ==
    CountReturned =>
        LET occ == TagOccurrences(call.calls)
            counts == call.out.val
        IN  /\ \A j \in 1..Len(call.target_tags) :
                  DictGet(counts, call.target_tags[j], 0)
                      = Cardinality(CountedFor(occ, call.target_tags, call.target_tags[j]))
            /\ DictKeys(counts) \subseteq Range(call.target_tags)
            /\ SumCounts(counts) <= Len(occ)

\* 'погашение_долга' matches both targets 'Долг' and 'погашение_долга': only
\* the first has a counter
C23_Witness ==
    /\ CountReturned
    /\ call.target_tags = <<JStr(ShortTag), JStr(DebtTag)>>
    /\ Len(call.calls) = 1
    /\ call.calls[1].tags = <<DebtTag>>
    /\ call.out.val = <<[k |-> JStr(ShortTag), v |-> 1]>>

\* the pairs of a call and a distinct tag string it carries whose first
\* matching target is this one
DistinctCountedFor(calls, target_tags, target) ==
    {<<c, tag>> \in UNION {{<<c, calls[c].tags[i]>> : i \in 1..Len(calls[c].tags)} :
                             c \in 1..Len(calls)} :
        \E j \in 1..Len(target_tags) :
            target_tags[j] = target /\ IsFirstMatch(target_tags, j, tag)}

\* C24: a call adds to the counter of a target once for each distinct tag
\* string it carries that counts for the target: a tag string repeated in the
\* tags of one call adds 1, not the number of repetitions.
C24_OncePerDistinctTag ==
    CountReturned =>
        \A j \in 1..Len(call.target_tags) :
            DictGet(call.out.val, call.target_tags[j], 0)
                = Cardinality(DistinctCountedFor(call.calls, call.target_tags,
                                                 call.target_tags[j]))

RECURSIVE SumSeries(_)
SumSeries(series) ==
    IF series = <<>> THEN 0 ELSE series[1].count + SumSeries(Tail(series))

\* C29: what _tag_trends returns agrees with what _count_by_tag returns
\* for the same calls and the same targets: the same targets have an entry, and
\* the counts of the periods of a target add up to its counter, for every
\* grouping.
C29_TrendsAgreeWithCounts ==
    TrendsReturned =>
        LET counts == count_by_tag(call.calls, call.target_tags)
            trends == call.out.val
        IN  /\ counts.exc = "none"
            /\ DictKeys(trends) = DictKeys(counts.val)
            /\ \A i \in 1..Len(trends) :
                  SumSeries(trends[i].v) = DictGet(counts.val, trends[i].k, 0)

\* three calls tagged 'долго_нет_ответа', two of them of the same day: two
\* periods whose counts 1 and 2 add up to the counter 3
C29_Witness ==
    /\ TrendsReturned
    /\ call.target_tags = <<JStr(LongTag)>>
    /\ Len(call.calls) = 3
    /\ Len(call.out.val) = 1
    /\ Len(call.out.val[1].v) = 2
    /\ call.out.val[1].v[1].count = 1
    /\ call.out.val[1].v[2].count = 2
    /\ count_by_tag(call.calls, call.target_tags) = Ok(<<[k |-> JStr(LongTag), v |-> 3]>>)

(***************************************************************************)
(* SmartAudioProcessor.process_large_dataset (src/audio_processor.py): the *)
(* audio files of the drive folder, the output CSV file with its           *)
(* source_audio column, and the steps of one call.  A file is              *)
(* [stem, ext]; the folder lists its files in the order of their names.    *)
(***************************************************************************)
\* the most rows the output CSV holds before the call
MaxCsvRows == 2

\* audio_extensions, and the same in upper case (pattern.upper())
AudioExtensions == {".mp3", ".wav", ".m4a", ".flac", ".ogg", ".aac", ".wma"}

AudioExtensionsUpper == {".MP3", ".WAV", ".M4A", ".FLAC", ".OGG", ".AAC", ".WMA"}

\* the files a folder can hold, in the order of their names: two audio files,
\* one of them with its extension in upper case, and a file that is no audio
FolderFiles ==
    <<[stem |-> "a", ext |-> ".mp3"], [stem |-> "b", ext |-> ".WAV"],
      [stem |-> "c", ext |-> ".txt"]>>

\* the folder is missing, or holds some of the files
Folders ==
    {[exists |-> FALSE, files |-> <<>>]}
    \cup {[exists |-> TRUE,
           files |-> SelectSeq(FolderFiles, LAMBDA f : f \in keep)] :
             keep \in SUBSET Range(FolderFiles)}

\* a cell of the source_audio column: the name of a file or an empty cell
SourceAudioCells ==
    {[isNaN |-> FALSE, name |-> FolderFiles[1]], [isNaN |-> FALSE, name |-> FolderFiles[2]],
     [isNaN |-> FALSE, name |-> [stem |-> "z", ext |-> ".mp3"]], [isNaN |-> TRUE]}

\* the output CSV before the call: no file, a file pandas cannot read, a file
\* without the source_audio column, or the column's cells
CsvFiles ==
    {[kind |-> k, source_audio |-> <<>>] : k \in {"missing", "unreadable", "no_column"}}
    \cup {[kind |-> "rows", source_audio |-> cells] :
             cells \in SeqsUpTo(SourceAudioCells, MaxCsvRows)}

\* _list_files_without_download: the files of the folder that match "*.ext" of
\* an audio extension in lower or in upper case, sorted
list_files_without_download(folder) ==
    IF ~folder.exists THEN <<>>
    ELSE SelectSeq(folder.files,
                   LAMBDA f : f.ext \in AudioExtensions \cup AudioExtensionsUpper)

\* _load_processed_list: the names of the source_audio column that are not
\* empty, each joined with the folder's path as the listed files are; none when
\* the CSV is missing, unreadable or has no such column
load_processed_list(csv) ==
    IF csv.kind # "rows" THEN {}
    ELSE {csv.source_audio[i].name :
             i \in {j \in 1..Len(csv.source_audio) : ~csv.source_audio[j].isNaN}}

\* [f for f in all_files if f not in processed]
ToProcess(all_files, processed) == SelectSeq(all_files, LAMBDA f : f \notin processed)

\* lines 83-86: the files are listed; the call returns [] when there is none
ListFiles ==
    /\ call.op = "process_large_dataset" /\ call.pc = "list"
    /\ \E all_files \in {list_files_without_download(call.folder)} :
          call' = IF all_files = <<>>
                  THEN [call EXCEPT !.pc = "returned", !.done = TRUE]
                  ELSE [call EXCEPT !.pc = "status", !.all_files = all_files]
    /\ UNCHANGED <<loaderVars, session>>

\* lines 97-103: the processed files are read from the CSV and the status is
\* printed
LoadProcessedList ==
    /\ call.op = "process_large_dataset" /\ call.pc = "status"
    /\ call' = [call EXCEPT !.pc = "check",
                            !.to_process = ToProcess(call.all_files,
                                                     load_processed_list(call.csv))]
    /\ UNCHANGED <<loaderVars, session>>

\* lines 105-107: "if not to_process: print(...)" and then, at the
\* indentation of the if, "return []".  The batches of lines 110-166 follow
\* the return
ReturnAfterStatus ==
    /\ call.op = "process_large_dataset" /\ call.pc = "check"
    /\ call' = [call EXCEPT !.pc = "returned", !.done = TRUE, !.out = <<>>]
    /\ UNCHANGED <<loaderVars, session>>

AudioInit ==
    /\ LoaderIdle /\ SessionIdle
    /\ call \in {[op |-> "process_large_dataset", pc |-> "list", folder |-> folder,
                  csv |-> csv, all_files |-> <<>>, to_process |-> <<>>, out |-> <<>>,
                  done |-> FALSE] : folder \in Folders, csv \in CsvFiles}

AudioNext == ListFiles \/ LoadProcessedList \/ ReturnAfterStatus

SpecAudio == AudioInit /\ [][AudioNext]_vars

\* C30: when process_large_dataset has returned and an audio file of the
\* folder was not recorded in the CSV, the call has processed the unprocessed
\* files: it returns one result for each of them and the CSV is left with a row
\* for each.
C30_UnprocessedFilesProcessed ==
    (call.op = "process_large_dataset" /\ call.pc = "returned")
    => LET unprocessed == ToProcess(list_files_without_download(call.folder),
                                    load_processed_list(call.csv))
       IN  /\ Len(call.out) = Len(unprocessed)
           /\ Range(unprocessed) \subseteq load_processed_list(call.csv)
====
